---- MODULE Spec2Model ----
(***************************************************************************)
(* Model of the query router (src/src/common/router_consumer_a2a.py) and   *)
(* of the banking analytics function (src/src/agents/banking_agent_a2a.py  *)
(* and its copy in src/src/director_agent/agent_folder/banking_agent), and  *)
(* of the calendar adapter handle_event_request_for_router                 *)
(* (src/src/director_agent/agent_folder/calandar_agent/agent.py), and of   *)
(* the Discord mirror bot (src/src/discord_bot/discordbot.py) and the      *)
(* inlet it posts to (src/ingest_server.py).                               *)
(*                                                                         *)
(* Money is counted in thousandths of a currency unit (42.53 is 42530),    *)
(* time in hours.  All amounts of the ledgers drawn below are even         *)
(* numbers of thousandths, so no sum is ever a rounding tie and exact      *)
(* arithmetic agrees with the float arithmetic of the code.                *)
(***************************************************************************)
EXTENDS Integers, Sequences, FiniteSets, TLC

VARIABLES
    bank,       \* the ledger document handed to the banking function (inline_json)
    window,     \* the window argument: [since, until], each a timestamp string
    traceId,    \* the traceId argument
    impl,       \* which copy of the analytics function produced `report`
    report,     \* the value returned by the analytics function
    bpc,        \* "idle" before the call, "done" after it
    rq,         \* the request envelope handed to RouterA2A.route
    rpc,        \* where route is: "idle", "agent", "blocked", "parse", "returned", "raised"
    local,      \* the locals of route: trace_id, query, payload, mode
    todo,       \* the tools the router agent has still to call in this run
    calls,      \* the tool calls of the router agent so far, with their replies
    final,      \* the text of the last event of the agent run
    response,   \* what route returned
    runs,       \* how many times route has called run_agent_once
    req,        \* the request handed to handle_event_request_for_router
    kwargs,     \* its keyword arguments use_app_calendar and check_freebusy
    cpc,        \* where the handler is: "idle", "read", "built", "service", "calendar",
                \* "free", "returned", "raised"
    frame,      \* the locals of the handler
    outside,    \* what the handler has called outside itself so far, in order
    events,     \* the events inserted into the calendar
    result,     \* what the handler returned, or the exception that left it
    message,    \* the Discord message at hand, and how the bot code was entered
    attempts,   \* the attempts argument of IngestClient.post
    ipc,        \* where the bot is: "idle", "loop", "sleep", "posted", "done"
    iter,       \* the loop variable i of IngestClient.post
    posts,      \* the POST requests sent so far, each with what came of it
    slept,      \* the backoffs slept so far, in tenths of a second
    postCalls,  \* how many times IngestClient.post has been called
    posted,     \* what IngestClient.post returned ("none" before it returns)
    acks,       \* the acknowledgements issued so far
    request,    \* the HTTP request that reached /ingest
    spc,        \* where ingest_message is: "idle", "authorized", "parsed", "except", "done"
    jsonData,   \* what request.get_json() returned
    caught,     \* the exception caught at line 53 ("" for none)
    bodyRead,   \* whether the body of the request has been read
    processed,  \* the payloads printed so far
    httpReply,  \* the response returned: its status code and its JSON
    calendars,  \* the calendar list of the account, in the order the service lists it
    pageSize,   \* how many entries the service puts on a page
    gpc,        \* where _get_or_create_app_calendar is: "idle", "list", "scan",
                \* "insert", "returned", "raised"
    pageToken,  \* page_token: where the next page starts (0 for None)
    pageItems,  \* the page at hand: its items and its nextPageToken
    seen,       \* how many entries the call at hand has looked at
    made,       \* how many calendars the call at hand has created
    ids,        \* the ids returned by the calls so far
    ncalls,     \* how many calls have been started
    initial     \* the calendar list before the first call

bankVars == <<bank, window, traceId, impl, report, bpc>>

routerVars == <<rq, rpc, local, todo, calls, final, response, runs>>

calVars == <<req, kwargs, cpc, frame, outside, events, result>>

botVars == <<message, attempts, ipc, iter, posts, slept, postCalls, posted, acks>>

serverVars == <<request, spc, jsonData, caught, bodyRead, processed, httpReply>>

appVars == <<calendars, pageSize, gpc, pageToken, pageItems, seen, made, ids, ncalls,
             initial>>

vars == <<bank, window, traceId, impl, report, bpc,
          rq, rpc, local, todo, calls, final, response, runs,
          req, kwargs, cpc, frame, outside, events, result,
          message, attempts, ipc, iter, posts, slept, postCalls, posted, acks,
          request, spc, jsonData, caught, bodyRead, processed, httpReply,
          calendars, pageSize, gpc, pageToken, pageItems, seen, made, ids, ncalls,
          initial>>

(***************************************************************************)
(* Bounds of the model.                                                    *)
(***************************************************************************)
MaxTxns == 2    \* transactions of the first account
MaxBulk == 11   \* largest number of identical transactions of the second account

(***************************************************************************)
(* Timestamp strings.  fmt says what the string looks like:                *)
(*   "none"   the key is missing or null        "empty"  the string ""     *)
(*   "bad"    not an ISO timestamp              "naive"  no offset         *)
(*   "Z"      ends in Z                         "offset" carries +hh:00    *)
(* t is the wall-clock reading in hours, off the offset in hours.          *)
(***************************************************************************)
Ts(fmt, t, off) == [fmt |-> fmt, t |-> t, off |-> off]
TsNone  == Ts("none", 0, 0)
TsEmpty == Ts("empty", 0, 0)
TsBad   == Ts("bad", 0, 0)

NoneDt == [ok |-> FALSE, inst |-> 0]

\* `x or y` of Python for two timestamp strings: None and "" are falsy.
Falsy(ts) == ts.fmt \in {"none", "empty"}
OrTs(a, b) == IF Falsy(a) THEN b ELSE a

\* _parse_iso: an aware datetime (its instant in UTC hours), or None.
ParseIso(ts) ==
    CASE ts.fmt = "Z"      -> [ok |-> TRUE, inst |-> ts.t]
      [] ts.fmt = "naive"  -> [ok |-> TRUE, inst |-> ts.t]
      [] ts.fmt = "offset" -> [ok |-> TRUE, inst |-> ts.t - ts.off]
      [] OTHER             -> NoneDt

\* A mutation of _in_window: the upper bound is exclusive.
InWindowExclusive(dt, since, until) ==
    IF ~dt.ok THEN FALSE
    ELSE IF since.ok /\ dt.inst < since.inst THEN FALSE
    ELSE IF until.ok /\ dt.inst >= until.inst THEN FALSE
    ELSE TRUE

\* _in_window
InWindow(dt, since, until) ==
    IF ~dt.ok THEN FALSE
    ELSE IF since.ok /\ dt.inst < since.inst THEN FALSE
    ELSE IF until.ok /\ dt.inst > until.inst THEN FALSE
    ELSE TRUE

(***************************************************************************)
(* Strings.  "" stands for a missing key, null or the empty string (all    *)
(* falsy).  str.lower and str.strip work character by character.           *)
(***************************************************************************)
LowerChar(c) ==
    CASE c = "A" -> "a"
      [] c = "B" -> "b"
      [] c = "C" -> "c"
      [] c = "D" -> "d"
      [] c = "E" -> "e"
      [] c = "F" -> "f"
      [] c = "G" -> "g"
      [] c = "H" -> "h"
      [] c = "I" -> "i"
      [] c = "J" -> "j"
      [] c = "K" -> "k"
      [] c = "L" -> "l"
      [] c = "M" -> "m"
      [] c = "N" -> "n"
      [] c = "O" -> "o"
      [] c = "P" -> "p"
      [] c = "Q" -> "q"
      [] c = "R" -> "r"
      [] c = "S" -> "s"
      [] c = "T" -> "t"
      [] c = "U" -> "u"
      [] c = "V" -> "v"
      [] c = "W" -> "w"
      [] c = "X" -> "x"
      [] c = "Y" -> "y"
      [] c = "Z" -> "z"
      [] OTHER -> c

RECURSIVE Lower(_)
Lower(s) ==
    IF s = "" THEN "" ELSE LowerChar(SubSeq(s, 1, 1)) \o Lower(SubSeq(s, 2, Len(s)))

IsSpace(c) == c = " "

RECURSIVE LStrip(_)
LStrip(s) ==
    IF s # "" /\ IsSpace(SubSeq(s, 1, 1)) THEN LStrip(SubSeq(s, 2, Len(s))) ELSE s

RECURSIVE RStrip(_)
RStrip(s) ==
    IF s # "" /\ IsSpace(SubSeq(s, Len(s), Len(s)))
    THEN RStrip(SubSeq(s, 1, Len(s) - 1)) ELSE s

Strip(s) == RStrip(LStrip(s))

\* needle in haystack
Contains(haystack, needle) ==
    \E i \in 1..(Len(haystack) - Len(needle) + 1) :
        SubSeq(haystack, i, i + Len(needle) - 1) = needle

OrStr(a, b) == IF a = "" THEN b ELSE a

(***************************************************************************)
(* Transactions.  mname and mcat are merchant.name and merchant.category   *)
(* ("" when there is no merchant object or no such key).                   *)
(***************************************************************************)
Txn(p, c, ty, amt, mn, mc, d, cat) ==
    [posted_at |-> p, created_at |-> c, type |-> ty, amount |-> amt,
     mname |-> mn, mcat |-> mc, description |-> d, category |-> cat]

Naive(t) == Ts("naive", t, 0)
Zulu(t)  == Ts("Z", t, 0)

TxnPool ==
    { Txn(Naive(24), TsNone, "debit", -42530, "Acme", "", "card", "Retail"),
      Txn(Zulu(36), TsNone, "credit", 811850, "Payroll", "", "salary", "Income"),
      Txn(Zulu(36), TsNone, "credit", -900000, "Refund", "", "", ""),
      Txn(Ts("offset", 24, 1), TsNone, "debit", -600000, "Acme", "", "", "Retail"),
      Txn(TsNone, Zulu(48), "DEBIT", -10002, "", "", " coffee ", ""),
      Txn(TsEmpty, Naive(36), "debit", 10004, "Bistro", " Food ", "lunch", ""),
      Txn(TsBad, Zulu(36), "debit", -700000, "Acme", "", "", "Retail"),
      Txn(TsNone, TsNone, "debit", -800000, "Acme", "", "", "Retail"),
      Txn(Zulu(36), TsNone, "debit", -4, "Kiosk", "", "", "Retail"),
      Txn(Ts("offset", 50, 2), TsNone, "debit", -700000, "Landlord", "", "rent", "Rent"),
      Txn(Naive(72), TsNone, "debit", -700000, "Dealer", "", "", "Auto"),
      Txn(Zulu(30), Zulu(99), "debit", -499996, "Acme", "", "", "Retail"),
      Txn(Zulu(40), TsNone, "", -650000, "Ghost", "", "", "") }

BulkTxn == Txn(Zulu(36), TsNone, "debit", -600000, "Gym", "Fitness", "", "")

RECURSIVE Repeat(_, _)
Repeat(x, n) == IF n = 0 THEN <<>> ELSE <<x>> \o Repeat(x, n - 1)

SeqsUpTo(S, n) == UNION { [1..k -> S] : k \in 0..n }

\* An entry of recurring_payments.
Recurring(name, amt, freq, next) ==
    [name |-> name, amount |-> amt, frequency |-> freq, next_charge |-> next]

\* The recurring payments of the first account: next charge missing, inside the
\* narrow windows, after them, empty and unreadable.
RecurringPool ==
    <<Recurring("Rent", 700000, "monthly", TsNone),
      Recurring("Gym", 30000, "monthly", Naive(36)),
      Recurring("Stream", 9990, "monthly", Naive(96)),
      Recurring("Club", 5000, "yearly", TsEmpty),
      Recurring("Odd", 1000, "weekly", TsBad)>>

\* An account; <<>> for transactions or recurring_payments is a missing key, null or
\* an empty list (the code reads all three alike).
Account(nick, atype, txns, recs) ==
    [nickname |-> nick, account_type |-> atype, transactions |-> txns,
     recurring_payments |-> recs]

\* A ledger document: user is "object", "missing" or "null"; accountsKey says the
\* same of user.accounts ("list", "missing", "null").
Document(user, accountsKey, accounts) ==
    [user |-> user, accountsKey |-> accountsKey, accounts |-> accounts]

Ledger(txns, k) ==
    Document("object", "list",
             <<Account("Checking", "checking", txns, RecurringPool),
               Account("", "savings", Repeat(BulkTxn, k),
                       <<Recurring("Vault", 2000, "monthly", Naive(40))>>)>>)

\* Documents without the expected structure.
MalformedLedgers ==
    {Document("missing", "missing", <<>>), Document("null", "missing", <<>>),
     Document("object", "missing", <<>>), Document("object", "null", <<>>),
     Document("object", "list", <<>>)}

\* The ledgers drawn: a first account of up to MaxTxns transactions with a second
\* account of none or one, and a first account of at most one transaction with a
\* second account of 10 to MaxBulk identical transactions.
Ledgers ==
    { Ledger(txns, k) : txns \in SeqsUpTo(TxnPool, MaxTxns), k \in {0, 1} }
    \cup { Ledger(txns, k) : txns \in SeqsUpTo(TxnPool, 1), k \in 10..MaxBulk }
    \cup MalformedLedgers

Windows ==
    { [since |-> s, until |-> u] :
        s \in {TsNone, Naive(24), TsBad},
        u \in {TsNone, Ts("offset", 49, 1)} }
    \cup { [since |-> Naive(24), until |-> Naive(744)],
           [since |-> Naive(24), until |-> Naive(36)],
           [since |-> Naive(72), until |-> Ts("offset", 49, 1)],
           [since |-> Naive(24), until |-> TsBad] }

TraceIds == {"", "trace-1"}

NoReport == [status |-> "none"]

\* The router before a request has reached it.
NoWindow == [since |-> "", until |-> ""]

NoPayload == [query |-> "", prompt |-> "", window |-> NoWindow, traceId |-> ""]

NoRequest == [traceId |-> "", payload |-> NoPayload]

NoLocal == [trace_id |-> "", query |-> "", payload |-> NoPayload, mode |-> ""]

NoText == [json |-> FALSE, value |-> [raw |-> ""]]

NoResponse == [status |-> "none"]

RouterOff ==
    /\ rq = NoRequest
    /\ rpc = "off"
    /\ local = NoLocal
    /\ todo = <<>>
    /\ calls = <<>>
    /\ final = NoText
    /\ response = NoResponse
    /\ runs = 0

\* A dateTime string of a calendar request; fmt as for Ts, the reading m in minutes.
DateTime(fmt, m) == [fmt |-> fmt, m |-> m]
DtNone  == DateTime("none", 0)
DtEmpty == DateTime("empty", 0)
DtBad   == DateTime("bad", 0)

\* The value under "start" or "end" of the payload: the key is missing, null, an
\* object (with its dateTime) or a bare string.
TimeKey(shape, dateTime) == [shape |-> shape, dateTime |-> dateTime]

\* The value under "reminders": missing, or an object whose minutesBefore is
\* "absent", a number ("15") or a word ("soon").
Reminders(shape, minutesBefore) == [shape |-> shape, minutesBefore |-> minutesBefore]

\* The payload of a calendar request: missing, null or an object.
CalPayload(shape, start, end, reminders) ==
    [shape |-> shape, start |-> start, end |-> end, reminders |-> reminders]

NoCalPayload(shape) ==
    CalPayload(shape, TimeKey("missing", DtNone), TimeKey("missing", DtNone),
               Reminders("missing", "absent"))

\* The value under "user": missing, null or an object with its tz ("" for none).
CalUser(shape, tz) == [shape |-> shape, tz |-> tz]

NoFrame == [trace_id |-> "", tz |-> "", start_iso_in |-> DtNone, end_iso_in |-> DtNone,
            overrides |-> <<>>, calendar_id |-> ""]

NoResult == [status |-> "none"]

CalendarOff ==
    /\ req = [traceId |-> "", payload |-> NoCalPayload("missing"),
              user |-> CalUser("missing", "")]
    /\ kwargs = [use_app_calendar |-> TRUE, check_freebusy |-> TRUE]
    /\ cpc = "off"
    /\ frame = NoFrame
    /\ outside = <<>>
    /\ events = <<>>
    /\ result = NoResult

\* A Discord message: whether its author is a bot, whether its channel is a DM
\* channel; entry tells which function was called, on_message or post.
Message(entry, bot, dm) == [entry |-> entry, bot |-> bot, dm |-> dm]

BotOff ==
    /\ message = Message("none", FALSE, FALSE)
    /\ attempts = 0
    /\ ipc = "off"
    /\ iter = 0
    /\ posts = <<>>
    /\ slept = <<>>
    /\ postCalls = 0
    /\ posted = "none"
    /\ acks = <<>>

\* A JSON value as ingest_message looks at it: its type, its size (the number of
\* keys, items or characters, or the number itself), and for an object what is
\* under "author", "channel" and "guild" ("absent", "null", "string" or "object").
Json(type, size, author, channel, guild) ==
    [type |-> type, size |-> size, author |-> author, channel |-> channel,
     guild |-> guild]

JsonNull == Json("null", 0, "absent", "absent", "absent")

\* An HTTP request: the X-Ingest-Secret header ("" for none), whether the
\* Content-Type is application/json, and the body: no bytes ("empty"), bytes that
\* are no JSON ("malformed"), or the text of the JSON value `value`.
HttpRequest(secret, isJson, wire, value) ==
    [secret |-> secret, isJson |-> isJson, wire |-> wire, value |-> value]

NoReply == [code |-> 0, error |-> "", status |-> ""]

ServerOff ==
    /\ request = HttpRequest("", FALSE, "empty", JsonNull)
    /\ spc = "off"
    /\ jsonData = JsonNull
    /\ caught = ""
    /\ bodyRead = FALSE
    /\ processed = <<>>
    /\ httpReply = NoReply

NoPage == [items |-> <<>>, nextPageToken |-> 0]

AppCalendarOff ==
    /\ calendars = <<>>
    /\ pageSize = 1
    /\ gpc = "off"
    /\ pageToken = 0
    /\ pageItems = NoPage
    /\ seen = 0
    /\ made = 0
    /\ ids = <<>>
    /\ ncalls = 0
    /\ initial = <<>>

(***************************************************************************)
(* Arithmetic helpers.                                                     *)
(***************************************************************************)
Abs(x) == IF x < 0 THEN -x ELSE x

Max(a, b) == IF a >= b THEN a ELSE b

RECURSIVE SumSeq(_)
SumSeq(s) == IF s = <<>> THEN 0 ELSE Head(s) + SumSeq(Tail(s))

\* round(x, 2) for x >= 0 in thousandths: the nearest multiple of 10, a tie
\* going to the even hundredth.
Round2(x) ==
    LET q == x \div 10
        r == x % 10
    IN  IF r < 5 THEN 10 * q
        ELSE IF r > 5 THEN 10 * (q + 1)
        ELSE IF q % 2 = 0 THEN 10 * q ELSE 10 * (q + 1)

\* Natural numbers beyond the machine range, as three limbs <<hi, mid, lo>> in
\* base 10000 (mid and lo below 10000): the squares met by the variance.
Norm3(n) ==
    LET lo  == n[3] % 10000
        m   == n[2] + (n[3] \div 10000)
        mid == m % 10000
        hi  == n[1] + (m \div 10000)
    IN  <<hi, mid, lo>>

Add3(a, b) == Norm3(<<a[1] + b[1], a[2] + b[2], a[3] + b[3]>>)

Sq3(x) ==
    LET d1 == Abs(x) \div 10000
        d0 == Abs(x) % 10000
    IN  Norm3(<<d1 * d1, 2 * d1 * d0, d0 * d0>>)

Times4(a) == Add3(Add3(a, a), Add3(a, a))

GE3(a, b) ==
    \/ a[1] > b[1]
    \/ a[1] = b[1] /\ a[2] > b[2]
    \/ a[1] = b[1] /\ a[2] = b[2] /\ a[3] >= b[3]

Scale3(a, k) == Norm3(<<a[1] * k, a[2] * k, a[3] * k>>)

\* The sum of the squares of xs.
RECURSIVE SumSq3(_)
SumSq3(xs) == IF xs = <<>> THEN <<0, 0, 0>> ELSE Add3(Sq3(Head(xs)), SumSq3(Tail(xs)))

\* A mutation of the sort: an item goes before the items of equal key (not stable).
InsertDescUnstable(sorted, x) ==
    LET pos == Cardinality({ j \in 1..Len(sorted) : sorted[j].k > x.k })
    IN  SubSeq(sorted, 1, pos) \o <<x>> \o SubSeq(sorted, pos + 1, Len(sorted))

\* sorted(items, key = .k, reverse = True): a stable sort, descending by k; items
\* of equal key keep their order.  x is placed after the items whose key is at
\* least its own.
InsertDesc(sorted, x) ==
    LET pos == Cardinality({ j \in 1..Len(sorted) : sorted[j].k >= x.k })
    IN  SubSeq(sorted, 1, pos) \o <<x>> \o SubSeq(sorted, pos + 1, Len(sorted))

RECURSIVE SortedDescFrom(_, _)
SortedDescFrom(s, n) ==
    IF n = 0 THEN <<>> ELSE InsertDesc(SortedDescFrom(s, n - 1), s[n])

SortedDesc(s) == SortedDescFrom(s, Len(s))

Take(s, n) == IF Len(s) <= n THEN s ELSE SubSeq(s, 1, n)

(***************************************************************************)
(* The analytics function.                                                 *)
(***************************************************************************)
\* The threshold floor 500.0, in thousandths.
AnomalyFloor == 500000

\* The number of largest transactions examined for anomalies ([:10]).
TopN == 10

\* acct.get("nickname") or acct.get("account_type")
AccountLabel(acct) == OrStr(acct.nickname, acct.account_type)

\* dict(t) with t2["_account"] set: a copy of the transaction carrying its account.
Tagged(t, acct) ==
    [x \in DOMAIN t \cup {"account"} |->
        IF x = "account" THEN AccountLabel(acct) ELSE t[x]]

\* What bank.get("user", {}).get("accounts", []) raises: "" when it raises nothing.
\* A null user has no get (AttributeError), null accounts cannot be iterated
\* (TypeError).
AccountsError(b) ==
    IF b.user = "null" THEN "AttributeError"
    ELSE IF b.user = "object" /\ b.accountsKey = "null" THEN "TypeError"
    ELSE ""

\* bank.get("user", {}).get("accounts", []) when it raises nothing.
AccountsOf(b) ==
    IF b.user = "object" /\ b.accountsKey = "list" THEN b.accounts ELSE <<>>

RECURSIVE FlattenFrom(_, _)
FlattenFrom(accounts, i) ==
    IF i > Len(accounts) THEN <<>>
    ELSE [j \in 1..Len(accounts[i].transactions) |->
             Tagged(accounts[i].transactions[j], accounts[i])]
         \o FlattenFrom(accounts, i + 1)

\* _flatten_txns
FlattenTxns(b) == FlattenFrom(AccountsOf(b), 1)

RecurringEntry(r, acct) ==
    [account |-> AccountLabel(acct), name |-> r.name, amount |-> r.amount,
     frequency |-> r.frequency, next_charge |-> r.next_charge]

RECURSIVE RecurringFrom(_, _)
RecurringFrom(accounts, i) ==
    IF i > Len(accounts) THEN <<>>
    ELSE [j \in 1..Len(accounts[i].recurring_payments) |->
             RecurringEntry(accounts[i].recurring_payments[j], accounts[i])]
         \o RecurringFrom(accounts, i + 1)

\* The mutated loop body: the tag is written into the transaction of the ledger.
StoredAfterTagInPlace(t, acct) == Tagged(t, acct)

\* What the ledger holds in the place of t once the loop body has run: t2 = dict(t) is
\* a fresh dict and the tag goes into t2, so the ledger still holds t as it was.
StoredAfterTag(t, acct) == t

\* The ledger after _flatten_txns has walked it.
LedgerAfterFlatten(b) ==
    IF AccountsOf(b) = <<>> THEN b
    ELSE [b EXCEPT !.accounts =
            [i \in 1..Len(b.accounts) |->
                [b.accounts[i] EXCEPT !.transactions =
                    [j \in 1..Len(b.accounts[i].transactions) |->
                        StoredAfterTag(b.accounts[i].transactions[j], b.accounts[i])]]]]

\* _recurring
RecurringOf(b) == RecurringFrom(AccountsOf(b), 1)

\* A mutation of the filter of line 132: only the window test, without the clause
\* for a missing next charge.
KeepRecurringDatedOnly(r, since, until) ==
    InWindow(ParseIso(OrTs(r.next_charge, TsEmpty)), since, until)

\* _in_window(_parse_iso(r.get("next_charge") or ""), since, until)
\*     or r.get("next_charge") is None
KeepRecurring(r, since, until) ==
    \/ InWindow(ParseIso(OrTs(r.next_charge, TsEmpty)), since, until)
    \/ r.next_charge = TsNone

\* Line 132 of the tool: the recurring payments due inside the window, or with no
\* next charge.
RecurringInWindow(b, since, until) ==
    SelectSeq(RecurringOf(b), LAMBDA r : KeepRecurring(r, since, until))

\* A mutation of the reading of a bound: an unreadable bound shuts its side of the
\* window (a since after every transaction, an until of its own).
WindowBoundClosed(ts) ==
    IF Falsy(ts) THEN NoneDt
    ELSE IF ParseIso(ts).ok THEN ParseIso(ts)
    ELSE [ok |-> TRUE, inst |-> 100000]

\* since = _parse_iso(since_s) if since_s else None
WindowBound(ts) == IF Falsy(ts) THEN NoneDt ELSE ParseIso(ts)

\* A mutation of the choice of the timestamp: created_at also stands in for a
\* posted_at that cannot be read.
EffectiveTsReadable(t) ==
    IF Falsy(t.posted_at) \/ ~ParseIso(t.posted_at).ok THEN t.created_at ELSE t.posted_at

\* posted_at = t.get("posted_at") or t.get("created_at")
EffectiveTs(t) == OrTs(t.posted_at, t.created_at)

\* dt = _parse_iso(posted_at) if posted_at else None
TxnDt(t) == IF Falsy(EffectiveTs(t)) THEN NoneDt ELSE ParseIso(EffectiveTs(t))

\* A mutation of the type test: every type but credit passes.
IsDebitNotCredit(t) == Lower(t.type) # "credit"

\* (t.get("type") or "").lower() == "debit"
IsDebit(t) == Lower(t.type) = "debit"

\* The two `continue` tests of the loop: the transaction is counted.
Admitted(t, since, until) == InWindow(TxnDt(t), since, until) /\ IsDebit(t)

\* abs(float(t.get("amount", 0.0)))
Magnitude(t) == Abs(t.amount)

\* (t.get("merchant") or {}).get("name") or (t.get("description") or "unknown").strip()
MerchKey(t) ==
    IF t.mname # "" THEN t.mname ELSE Strip(OrStr(t.description, "unknown"))

\* (t.get("category") or (t.get("merchant") or {}).get("category") or "uncategorized").strip()
CatKey(t) == Strip(OrStr(OrStr(t.category, t.mcat), "uncategorized"))

\* A mutation of the bucket update: a bucket of its own for every transaction.
AddToAppend(buckets, key, amt) ==
    Append(buckets, [key |-> key, spend |-> amt, count |-> 1])

\* A mutation of the bucket update: spend = amt instead of spend += amt.
AddToOverwrite(buckets, key, amt) ==
    IF \E i \in 1..Len(buckets) : buckets[i].key = key
    THEN [i \in 1..Len(buckets) |->
             IF buckets[i].key = key
             THEN [key |-> key, spend |-> amt, count |-> buckets[i].count + 1]
             ELSE buckets[i]]
    ELSE Append(buckets, [key |-> key, spend |-> amt, count |-> 1])

\* d.setdefault(key, {spend: 0, count: 0}), then spend += amt and count += 1.  A
\* dict keeps its keys in insertion order: a new key goes last.
AddTo(buckets, key, amt) ==
    IF \E i \in 1..Len(buckets) : buckets[i].key = key
    THEN [i \in 1..Len(buckets) |->
             IF buckets[i].key = key
             THEN [key |-> key, spend |-> buckets[i].spend + amt,
                   count |-> buckets[i].count + 1]
             ELSE buckets[i]]
    ELSE Append(buckets, [key |-> key, spend |-> amt, count |-> 1])

EmptyAcc == [debits |-> <<>>, debit_txns |-> <<>>, by_merchant |-> <<>>, by_category |-> <<>>]

\* One pass of the loop body.
LoopStep(acc, t, since, until) ==
    IF ~Admitted(t, since, until) THEN acc
    ELSE [debits      |-> Append(acc.debits, Magnitude(t)),
          debit_txns  |-> Append(acc.debit_txns, t),
          by_merchant |-> AddTo(acc.by_merchant, MerchKey(t), Magnitude(t)),
          by_category |-> AddTo(acc.by_category, CatKey(t), Magnitude(t))]

RECURSIVE Accumulate(_, _, _, _, _)
Accumulate(txns, i, acc, since, until) ==
    IF i > Len(txns) THEN acc
    ELSE Accumulate(txns, i + 1, LoopStep(acc, txns[i], since, until), since, until)

\* A mutation of the threshold: the variance term is dropped (mean alone, floored).
ThreshMeanOnly(debits) ==
    [n     |-> Len(debits),
     sum   |-> SumSeq(debits),
     s4    |-> <<0, 0, 0>>,
     q4n   |-> <<0, 0, 0>>,
     floor |-> AnomalyFloor]

\* A mutation of the threshold: mean + 2 * std without the floor of 500.
ThreshNoFloor(debits) ==
    [n     |-> Len(debits),
     sum   |-> SumSeq(debits),
     s4    |-> IF Len(debits) > 1 THEN Times4(Sq3(SumSeq(debits))) ELSE <<0, 0, 0>>,
     q4n   |-> IF Len(debits) > 1 THEN Scale3(SumSq3(debits), 4 * Len(debits))
               ELSE <<0, 0, 0>>,
     floor |-> 0]

\* thresh = max(mean + 2 * std, 500.0), std the population standard deviation (0.0
\* for a single sample), kept exactly.  With n samples of sum S and sum of squares
\* Q the variance is (n * Q - S^2) / n^2, so amt >= mean + 2 * std says
\* n * amt - S >= 0 and (n * amt - S)^2 + 4 * S^2 >= 4 * n * Q.
Thresh(debits) ==
    [n     |-> Len(debits),
     sum   |-> SumSeq(debits),
     s4    |-> IF Len(debits) > 1 THEN Times4(Sq3(SumSeq(debits))) ELSE <<0, 0, 0>>,
     q4n   |-> IF Len(debits) > 1 THEN Scale3(SumSq3(debits), 4 * Len(debits))
               ELSE <<0, 0, 0>>,
     floor |-> AnomalyFloor]

\* amt >= thresh
AtOrAboveThresh(amt, thresh) ==
    /\ amt >= thresh.floor
    /\ thresh.n * amt - thresh.sum >= 0
    /\ GE3(Add3(Sq3(thresh.n * amt - thresh.sum), thresh.s4), thresh.q4n)

\* The record appended to anomalies.
AnomalyOf(t) ==
    [amount |-> Round2(Magnitude(t)), description |-> t.description,
     merchant |-> t.mname, posted_at |-> EffectiveTs(t), account |-> t.account]

\* A mutation of the candidate list: the slice [:10] is missing.
BigNoCap(debit_txns) ==
    SortedDesc([i \in 1..Len(debit_txns) |->
                   [k |-> Magnitude(debit_txns[i]), v |-> debit_txns[i]]])

\* big = sorted(debit_txns, key = magnitude, reverse = True)[:10]
Big(debit_txns) ==
    LET keyed == [i \in 1..Len(debit_txns) |->
                     [k |-> Magnitude(debit_txns[i]), v |-> debit_txns[i]]]
    IN  Take(SortedDesc(keyed), TopN)

RECURSIVE KeepAnomalies(_, _)
KeepAnomalies(big, thresh) ==
    IF big = <<>> THEN <<>>
    ELSE (IF AtOrAboveThresh(Head(big).k, thresh) THEN <<AnomalyOf(Head(big).v)>> ELSE <<>>)
         \o KeepAnomalies(Tail(big), thresh)

\* The anomalies list (empty when nothing was admitted).
Anomalies(debit_txns, debits) ==
    IF debits = <<>> THEN <<>>
    ELSE LET thresh == Thresh(debits) IN KeepAnomalies(Big(debit_txns), thresh)

Bucket(b) == [key |-> b.key, spend |-> Round2(b.spend), count |-> b.count]

\* bank_window_summary_tool: sorted on the accumulated spend, rounded afterwards.
BucketListTool(buckets) ==
    LET keyed  == [i \in 1..Len(buckets) |-> [k |-> buckets[i].spend, v |-> buckets[i]]]
        sorted == SortedDesc(keyed)
    IN  [i \in 1..Len(sorted) |-> Bucket(sorted[i].v)]

\* bank_window_summary: rounded first, sorted on the rounded spend.
BucketListAgent(buckets) ==
    LET keyed  == [i \in 1..Len(buckets) |->
                      [k |-> Round2(buckets[i].spend), v |-> Bucket(buckets[i])]]
        sorted == SortedDesc(keyed)
    IN  [i \in 1..Len(sorted) |-> sorted[i].v]

Totals(debits) == [spend |-> Round2(SumSeq(debits)), count |-> Len(debits)]

UpperChar(c) ==
    CASE c = "a" -> "A"
      [] c = "b" -> "B"
      [] c = "c" -> "C"
      [] c = "d" -> "D"
      [] c = "e" -> "E"
      [] c = "f" -> "F"
      [] c = "g" -> "G"
      [] c = "h" -> "H"
      [] c = "i" -> "I"
      [] c = "j" -> "J"
      [] c = "k" -> "K"
      [] c = "l" -> "L"
      [] c = "m" -> "M"
      [] c = "n" -> "N"
      [] c = "o" -> "O"
      [] c = "p" -> "P"
      [] c = "q" -> "Q"
      [] c = "r" -> "R"
      [] c = "s" -> "S"
      [] c = "t" -> "T"
      [] c = "u" -> "U"
      [] c = "v" -> "V"
      [] c = "w" -> "W"
      [] c = "x" -> "X"
      [] c = "y" -> "Y"
      [] c = "z" -> "Z"
      [] OTHER -> c

\* str.capitalize
Capitalize(s) ==
    IF s = "" THEN "" ELSE UpperChar(SubSeq(s, 1, 1)) \o Lower(SubSeq(s, 2, Len(s)))

\* timedelta.days of a difference of h hours: whole days, rounded down.
DeltaDays(h) == h \div 24

\* The mutated caption: the day count is never below 1.
WindowCaptionAtLeastOne(since, until) ==
    IF since.ok /\ until.ok
    THEN LET days == DeltaDays(until.inst - since.inst)
         IN  "last " \o ToString(IF days < 1 THEN 1 ELSE days) \o " days"
    ELSE "selected window"

\* Lines 136-140: days = (until - since).days or 1
WindowCaption(since, until) ==
    IF since.ok /\ until.ok
    THEN LET days == DeltaDays(until.inst - since.inst)
         IN  "last " \o ToString(IF days = 0 THEN 1 ELSE days) \o " days"
    ELSE "selected window"

\* Three digits of a group after a comma.
Pad3(n) == (IF n < 10 THEN "00" ELSE IF n < 100 THEN "0" ELSE "") \o ToString(n)

RECURSIVE Grouped(_)
Grouped(n) ==
    IF n < 1000 THEN ToString(n) ELSE Grouped(n \div 1000) \o "," \o Pad3(n % 1000)

\* f"{spend:,.2f}" for a spend already rounded to hundredths (in thousandths).
Money(spend) ==
    LET cents == spend \div 10
        frac  == cents % 100
    IN  Grouped(cents \div 100) \o "." \o (IF frac < 10 THEN "0" ELSE "") \o ToString(frac)

\* Lines 142-145 (the currency is the default, USD).
Summary(caption, totals, anomalies) ==
    "In the " \o caption \o " you spent USD " \o Money(totals.spend) \o " across "
    \o ToString(totals.count) \o " transactions."
    \o (IF anomalies # <<>>
        THEN " Flagged " \o ToString(Len(anomalies)) \o " potential anomalies."
        ELSE "")

\* Line 147.
Sms(caption, totals) ==
    Capitalize(caption) \o " spend USD " \o Money(totals.spend) \o "; "
    \o ToString(totals.count) \o " txns."

Envelope(findings, caption, tid) ==
    [status |-> "ok", findings |-> findings,
     summary |-> Summary(caption, findings.totals, findings.anomalies),
     sms |-> Sms(caption, findings.totals),
     error |-> "", traceId |-> tid]

\* The call ends with an exception instead of a result.
RaisedReport(exc) == [status |-> "raised", error |-> exc]

\* bank_window_summary_tool(inline_json = b, window = w, traceId = tid)
BankWindowSummaryTool(b, w, tid) ==
    LET since == WindowBound(w.since)
        until == WindowBound(w.until)
        acc   == Accumulate(FlattenTxns(b), 1, EmptyAcc, since, until)
    IN  IF AccountsError(b) # "" THEN RaisedReport(AccountsError(b))
        ELSE Envelope([totals     |-> Totals(acc.debits),
                       byMerchant |-> BucketListTool(acc.by_merchant),
                       byCategory |-> BucketListTool(acc.by_category),
                       recurring  |-> RecurringInWindow(b, since, until),
                       anomalies  |-> Anomalies(acc.debit_txns, acc.debits)],
                      WindowCaption(since, until), tid)

\* bank_window_summary(inline_json = b, window = w, traceId = tid)
BankWindowSummary(b, w, tid) ==
    LET since == ParseIso(w.since)
        until == ParseIso(w.until)
        acc   == Accumulate(FlattenTxns(b), 1, EmptyAcc, since, until)
    IN  IF AccountsError(b) # "" THEN RaisedReport(AccountsError(b))
        ELSE Envelope([totals     |-> Totals(acc.debits),
                       byMerchant |-> BucketListAgent(acc.by_merchant),
                       byCategory |-> BucketListAgent(acc.by_category),
                       recurring  |-> RecurringOf(b),
                       anomalies  |-> Anomalies(acc.debit_txns, acc.debits)],
                      WindowCaption(since, until), tid)

(***************************************************************************)
(* The banking state machine: a ledger, a window and a traceId are given,  *)
(* and one of the two copies of the function is called on them.            *)
(***************************************************************************)
InitBank ==
    /\ bank \in Ledgers
    /\ window \in Windows
    /\ traceId \in TraceIds
    /\ impl = "none"
    /\ report = NoReport
    /\ bpc = "idle"
    /\ RouterOff
    /\ CalendarOff
    /\ BotOff
    /\ ServerOff
    /\ AppCalendarOff

\* A call of bank_window_summary_tool, the first or a later one, on the ledger, the
\* window and the traceId at hand.  The function keeps nothing between calls: its
\* result is made of its arguments alone.
CallTool ==
    /\ bpc \in {"idle", "done"}
    /\ report' = BankWindowSummaryTool(bank, window, traceId)
    /\ bank' = LedgerAfterFlatten(bank)
    /\ impl' = "tool"
    /\ bpc' = "done"
    /\ UNCHANGED <<window, traceId>>
    /\ UNCHANGED routerVars
    /\ UNCHANGED calVars
    /\ UNCHANGED botVars
    /\ UNCHANGED serverVars
    /\ UNCHANGED appVars

\* A call of the copy bank_window_summary.
CallAgentCopy ==
    /\ bpc \in {"idle", "done"}
    /\ report' = BankWindowSummary(bank, window, traceId)
    /\ bank' = LedgerAfterFlatten(bank)
    /\ impl' = "agent"
    /\ bpc' = "done"
    /\ UNCHANGED <<window, traceId>>
    /\ UNCHANGED routerVars
    /\ UNCHANGED calVars
    /\ UNCHANGED botVars
    /\ UNCHANGED serverVars
    /\ UNCHANGED appVars

NextBank == CallTool \/ CallAgentCopy

SpecBank == InitBank /\ [][NextBank]_vars

(***************************************************************************)
(* What the claims speak of, read off the ledger and the window without    *)
(* the loop of the function.                                               *)
(***************************************************************************)
Range(s) == { s[i] : i \in 1..Len(s) }

Min(a, b) == IF a <= b THEN a ELSE b

\* The copy `which` of the function has been called and has returned a report.
Done(which) == bpc = "done" /\ impl = which /\ report.status = "ok"

\* The effective timestamp of t (posted_at, else created_at) parses and lies within
\* every bound of the window that parses; the type of t is debit.
ClaimAdmits(t) ==
    LET e  == IF t.posted_at.fmt \in {"none", "empty"} THEN t.created_at ELSE t.posted_at
        dt == ParseIso(e)
        lo == ParseIso(window.since)
        hi == ParseIso(window.until)
    IN  /\ dt.ok
        /\ lo.ok => dt.inst >= lo.inst
        /\ hi.ok => dt.inst <= hi.inst
        /\ t.type \in {"debit", "Debit", "DEBIT"}

AllTxns == FlattenTxns(bank)

\* The admitted transactions and their magnitudes.
AdmittedTxns == SelectSeq(AllTxns, ClaimAdmits)

MagsOf(adm) == [i \in 1..Len(adm) |-> Abs(adm[i].amount)]

BucketCounts(list) == SumSeq([i \in 1..Len(list) |-> list[i].count])

BucketSpends(list) == SumSeq([i \in 1..Len(list) |-> list[i].spend])

BucketKeys(list) == { list[i].key : i \in 1..Len(list) }

\* The ledger without its transactions of type credit.
WithoutCredits(b) ==
    [b EXCEPT !.accounts = [i \in 1..Len(b.accounts) |->
        [b.accounts[i] EXCEPT !.transactions =
            SelectSeq(b.accounts[i].transactions, LAMBDA t : t.type # "credit")]]]

\* C1: bank_window_summary_tool counts a transaction if and only if its effective
\* timestamp (posted_at, else created_at) lies within the window, inclusive on
\* every bound that is present, and its type is debit: totals, the merchant and
\* category buckets and the anomalies are those of exactly these transactions, and
\* the credits of the ledger change nothing in the report.
C1_AdmitIffInWindowDebit ==
    Done("tool") =>
        LET adm == AdmittedTxns
            f   == report.findings
        IN  /\ f.totals.count = Len(adm)
            /\ f.totals.spend = Round2(SumSeq(MagsOf(adm)))
            /\ BucketCounts(f.byMerchant) = Len(adm)
            /\ BucketCounts(f.byCategory) = Len(adm)
            /\ BucketKeys(f.byMerchant) = { MerchKey(t) : t \in Range(adm) }
            /\ BucketKeys(f.byCategory) = { CatKey(t) : t \in Range(adm) }
            /\ Range(f.anomalies) \subseteq { AnomalyOf(t) : t \in Range(adm) }
            /\ report = BankWindowSummaryTool(WithoutCredits(bank), window, traceId)

\* C1 witness: a ledger with a credit inside the window and a debit exactly on the
\* upper bound, of which only the debits were counted.
C1_Witness ==
    /\ Done("tool")
    /\ ParseIso(window.since).ok /\ ParseIso(window.until).ok
    /\ \E t \in Range(AllTxns) :
          /\ t.type = "credit"
          /\ InWindow(ParseIso(t.posted_at), ParseIso(window.since), ParseIso(window.until))
    /\ \E t \in Range(AdmittedTxns) : TxnDt(t).inst = ParseIso(window.until).inst
    /\ report.findings.totals.count = Len(AdmittedTxns)
    /\ Len(AdmittedTxns) < Len(AllTxns)

\* C2 as stated: totals.spend equals the sum of the reported (rounded) spend of
\* the merchant buckets and the sum of the reported spend of the category buckets.
C2_TotalsEqualBucketSums ==
    Done("tool") =>
        /\ report.findings.totals.spend = BucketSpends(report.findings.byMerchant)
        /\ report.findings.totals.spend = BucketSpends(report.findings.byCategory)

WholeCents(mags) == \A i \in 1..Len(mags) : mags[i] % 10 = 0

\* C2, amended: when every admitted amount is a whole number of hundredths,
\* totals.spend equals the sum of the reported spend of the merchant buckets and
\* that of the category buckets; for any amounts the two differ by at most half a
\* hundredth for each bucket and half a hundredth for the total.
C2_TotalsEqualBucketSumsWholeCents ==
    Done("tool") =>
        LET f == report.findings
        IN  /\ WholeCents(MagsOf(AdmittedTxns)) =>
                 /\ f.totals.spend = BucketSpends(f.byMerchant)
                 /\ f.totals.spend = BucketSpends(f.byCategory)
            /\ Abs(f.totals.spend - BucketSpends(f.byMerchant)) <= 5 * (Len(f.byMerchant) + 1)
            /\ Abs(f.totals.spend - BucketSpends(f.byCategory)) <= 5 * (Len(f.byCategory) + 1)

\* C2 witness: whole-hundredth amounts spread over several merchants and several
\* categories, one of them holding more than one transaction.
C2_Witness ==
    /\ Done("tool")
    /\ WholeCents(MagsOf(AdmittedTxns))
    /\ Len(report.findings.byMerchant) >= 2
    /\ Len(report.findings.byCategory) >= 2
    /\ \E i \in 1..Len(report.findings.byMerchant) : report.findings.byMerchant[i].count >= 2
    /\ report.findings.totals.spend = BucketSpends(report.findings.byMerchant)
    /\ report.findings.totals.spend > 0

\* The place of the first of the transactions adm whose key is k.
FirstSeen(adm, Key(_), k) ==
    CHOOSE i \in 1..Len(adm) :
        /\ Key(adm[i]) = k
        /\ \A j \in 1..(i - 1) : Key(adm[j]) # k

\* The accumulated (unrounded) spend of key k over the transactions adm.
AccSpend(adm, Key(_), k) ==
    SumSeq([i \in 1..Len(adm) |-> IF Key(adm[i]) = k THEN Abs(adm[i].amount) ELSE 0])

NonIncreasing(list) ==
    \A i \in 1..(Len(list) - 1) : list[i].spend >= list[i + 1].spend

\* Buckets of equal reported spend stand in first-seen order of their keys.
ReportedTiesFirstSeen(adm, list, Key(_)) ==
    \A i, j \in 1..Len(list) :
        (i < j /\ list[i].spend = list[j].spend)
            => FirstSeen(adm, Key, list[i].key) < FirstSeen(adm, Key, list[j].key)

\* Buckets of equal accumulated spend stand in first-seen order of their keys.
AccumulatedTiesFirstSeen(adm, list, Key(_)) ==
    \A i, j \in 1..Len(list) :
        (i < j /\ AccSpend(adm, Key, list[i].key) = AccSpend(adm, Key, list[j].key))
            => FirstSeen(adm, Key, list[i].key) < FirstSeen(adm, Key, list[j].key)

\* C4 as stated: in every report byMerchant and byCategory are in non-increasing
\* order of reported spend, and buckets of equal reported spend are in the order
\* in which their keys were first seen.
C4_SortedReportedTies ==
    (Done("tool") \/ Done("agent")) =>
        LET adm == AdmittedTxns
        IN  /\ NonIncreasing(report.findings.byMerchant)
            /\ NonIncreasing(report.findings.byCategory)
            /\ ReportedTiesFirstSeen(adm, report.findings.byMerchant, MerchKey)
            /\ ReportedTiesFirstSeen(adm, report.findings.byCategory, CatKey)

\* C4, amended: in every report (of either copy of the function) byMerchant and
\* byCategory are in non-increasing order of reported spend, and buckets of equal
\* accumulated (unrounded) spend are in the order in which their keys were first
\* seen; in the copy bank_window_summary this holds of equal reported spend too.
C4_SortedAccumulatedTies ==
    (Done("tool") \/ Done("agent")) =>
        LET adm == AdmittedTxns
        IN  /\ NonIncreasing(report.findings.byMerchant)
            /\ NonIncreasing(report.findings.byCategory)
            /\ AccumulatedTiesFirstSeen(adm, report.findings.byMerchant, MerchKey)
            /\ AccumulatedTiesFirstSeen(adm, report.findings.byCategory, CatKey)
            /\ impl = "agent" =>
                  /\ ReportedTiesFirstSeen(adm, report.findings.byMerchant, MerchKey)
                  /\ ReportedTiesFirstSeen(adm, report.findings.byCategory, CatKey)

\* C4 witness: a report of bank_window_summary_tool with three merchant buckets, the
\* first two of equal accumulated spend and in first-seen order, above a smaller one
\* that was seen before them.
C4_Witness ==
    /\ Done("tool")
    /\ Len(report.findings.byMerchant) = 3
    /\ AccSpend(AdmittedTxns, MerchKey, report.findings.byMerchant[1].key)
         = AccSpend(AdmittedTxns, MerchKey, report.findings.byMerchant[2].key)
    /\ report.findings.byMerchant[2].spend > report.findings.byMerchant[3].spend
    /\ FirstSeen(AdmittedTxns, MerchKey, report.findings.byMerchant[1].key)
         < FirstSeen(AdmittedTxns, MerchKey, report.findings.byMerchant[2].key)

\* The sum over j in lo..Len(xs) of (x - xs[j])^2.
RECURSIVE RowSq(_, _, _)
RowSq(xs, x, lo) ==
    IF lo > Len(xs) THEN <<0, 0, 0>>
    ELSE Add3(Sq3(x - xs[lo]), RowSq(xs, x, lo + 1))

\* The sum over i < j of (xs[i] - xs[j])^2, from row i on: n^2 times the population
\* variance of xs.
RECURSIVE PairSq(_, _)
PairSq(xs, i) ==
    IF i >= Len(xs) THEN <<0, 0, 0>>
    ELSE Add3(RowSq(xs, xs[i], i + 1), PairSq(xs, i + 1))

\* m >= max(mean + 2 * stddev, 500) for the magnitudes mags of sum `sum`, v4 being
\* four times the sum of their squared pairwise differences (the population
\* variance is the mean squared pairwise difference).
ClaimAtOrAbove(m, mags, sum, v4) ==
    /\ m >= 500000
    /\ Len(mags) * m - sum >= 0
    /\ GE3(Sq3(Len(mags) * m - sum), v4)

\* Magnitudes below 500 at which the threshold is probed.
BelowFloor == {0, 4, 42530, 250000, 499996, 499998}

\* C5: the anomaly threshold is max(mean + 2 * stddev, 500), never below 500: no
\* magnitude below 500 is at or above it, no admitted transaction of magnitude
\* below 500 is reported as an anomaly, a reported transaction is at or above
\* max(mean + 2 * stddev, 500) (and, of at most ten admitted transactions, every one
\* at or above it is reported), and with exactly one admitted transaction
\* the threshold is max(mean, 500), so that transaction is reported if and only if
\* its magnitude is at least 500.
C5_ThresholdFloor ==
    Done("tool") =>
        LET adm  == AdmittedTxns
            mags == MagsOf(adm)
            sum  == SumSeq(mags)
            v4   == Times4(PairSq(mags, 1))
            an   == Range(report.findings.anomalies)
            th   == Thresh(mags)
        IN  /\ \A t \in Range(adm) : Abs(t.amount) < 500000 => AnomalyOf(t) \notin an
            /\ \A a \in an : a.amount >= 500000
            /\ adm # <<>> => \A m \in BelowFloor : ~AtOrAboveThresh(m, th)
            /\ \A t \in Range(adm) :
                  /\ AnomalyOf(t) \in an => ClaimAtOrAbove(Abs(t.amount), mags, sum, v4)
                  /\ (Len(adm) <= 10 /\ ClaimAtOrAbove(Abs(t.amount), mags, sum, v4))
                        => AnomalyOf(t) \in an
            /\ Len(adm) = 1 =>
                  report.findings.anomalies =
                      IF mags[1] >= Max(mags[1], 500000)
                      THEN <<AnomalyOf(adm[1])>> ELSE <<>>

\* C5 witness: a single admitted transaction of magnitude 499.996, which rounds to
\* 500.00 and is not reported.
C5_Witness ==
    /\ Done("tool")
    /\ Len(AdmittedTxns) = 1
    /\ Abs(AdmittedTxns[1].amount) = 499996
    /\ Round2(Abs(AdmittedTxns[1].amount)) = 500000
    /\ report.findings.anomalies = <<>>

\* The number of the magnitudes mags at or above the threshold th.
NumAbove(mags, th) == Cardinality({ i \in 1..Len(mags) : AtOrAboveThresh(mags[i], th) })

\* The p-th largest of the magnitudes mags.
KthLargest(mags, p) ==
    CHOOSE v \in Range(mags) :
        /\ Cardinality({ i \in 1..Len(mags) : mags[i] > v }) < p
        /\ Cardinality({ i \in 1..Len(mags) : mags[i] >= v }) >= p

\* C6: the anomalies are those of the 10 largest admitted transactions whose
\* unrounded magnitude is at or above the threshold, in descending order of
\* magnitude: at most 10 entries, each built from an admitted transaction at or
\* above the threshold, the p-th entry carrying the p-th largest admitted magnitude;
\* ten admitted debits of magnitude 600 are all reported.
C6_AnomaliesTopTen ==
    Done("tool") =>
        LET an   == report.findings.anomalies
            adm  == AdmittedTxns
            mags == MagsOf(adm)
            th   == Thresh(mags)
        IN  /\ Len(an) <= 10
            /\ Len(an) = Min(10, NumAbove(mags, th))
            /\ \A p \in 1..Len(an) :
                  LET kth == KthLargest(mags, p)
                  IN  /\ an[p].amount = Round2(kth)
                      /\ AtOrAboveThresh(kth, th)
                      /\ \E t \in Range(adm) : an[p] = AnomalyOf(t) /\ Abs(t.amount) = kth
            /\ \A p \in 1..(Len(an) - 1) : an[p].amount >= an[p + 1].amount
            /\ mags = [i \in 1..10 |-> 600000] => Len(an) = 10

\* C6 witness: more than ten admitted transactions at or above the threshold, of
\* which ten are reported.
C6_Witness ==
    /\ Done("tool")
    /\ NumAbove(MagsOf(AdmittedTxns), Thresh(MagsOf(AdmittedTxns))) > 10
    /\ Len(report.findings.anomalies) = 10

\* C6 witness of the scenario: exactly ten admitted debits of 600, all reported.
C6_WitnessTen ==
    /\ Done("tool")
    /\ MagsOf(AdmittedTxns) = [i \in 1..10 |-> 600000]
    /\ Len(report.findings.anomalies) = 10

(***************************************************************************)
(* The router (src/src/common/router_consumer_a2a.py).  A request is the   *)
(* envelope {traceId, payload: {query, prompt, window, traceId}}; "" is a  *)
(* missing key.  route computes the query and the mode and runs the        *)
(* router agent once; the agent is a language model driven by the          *)
(* instruction text of the file and is taken to do what that text says:    *)
(* call the three tools in order for a daily report, call the tool of a    *)
(* bucket with a keyword in the query otherwise (the text gives no order   *)
(* among several such buckets, so any of them may be called), answer       *)
(* itself when no bucket has one.  What a tool replies is open.            *)
(***************************************************************************)
BANK_KWS ==
    {"bank", "balance", "spend", "spending", "merchant", "transaction",
     "subscriptions", "recurring", "charge", "debit", "credit", "rent", "cashflow"}

CAL_KWS ==
    {"calendar", "event", "schedule", "availability", "reminder", "meeting",
     "tomorrow", "today", "next week", "when am i free"}

GMAIL_KWS ==
    {"gmail", "email", "inbox", "message", "tasks", "follow up", "subject",
     "from", "unread"}

DAILY_KWS ==
    {"daily report", "today report", "todays report", "today's report",
     "daily summary", "today summary", "today's summary", "summary for today"}

\* The daily-report keywords the instruction of the agent lists.
InstructionDailyKws ==
    {"daily report", "today's report", "daily summary", "today's summary"}

Tools == <<"to_banking", "to_calendar", "to_gmail">>

ToolKws(tool) ==
    CASE tool = "to_banking"  -> BANK_KWS
      [] tool = "to_calendar" -> CAL_KWS
      [] tool = "to_gmail"    -> GMAIL_KWS

\* any(kw in query for kw in kws)
Matches(kws, query) == \E kw \in kws : Contains(query, kw)

(***************************************************************************)
(* Requests.  Queries are built from fragments joined by single spaces.    *)
(***************************************************************************)
MaxFrags == 2   \* fragments of a query

Fragments ==
    {"daily", "report", "Today's", "Summary", "summary for", "today", "spending",
     "current", " Email "}

RECURSIVE Join(_)
Join(fs) ==
    IF fs = <<>> THEN ""
    ELSE IF Len(fs) = 1 THEN fs[1]
    ELSE fs[1] \o " " \o Join(Tail(fs))

Queries == { Join(fs) : fs \in SeqsUpTo(Fragments, MaxFrags) }

CallerWindow == [since |-> "2025-07-01T00:00:00", until |-> "2025-07-31T23:59:59"]

Dates == {"2025-09-27", "2025-09-28"}

Request(q, p, w, et, pt) ==
    [traceId |-> et, payload |-> [query |-> q, prompt |-> p, window |-> w, traceId |-> pt]]

\* The trace ids on the envelope and on the payload.
TraceIdPairs == {<<"e1", "p1">>, <<"", "p1">>, <<"", "">>}

\* Texts sent under the key prompt instead of query.
Prompts == {"Daily Summary", "my balance"}

Requests ==
    { Request(q, "", w, tids[1], tids[2]) :
        q \in Queries, w \in {NoWindow, CallerWindow}, tids \in TraceIdPairs }
    \cup { Request("", p, NoWindow, "", "p1") : p \in Prompts }

(***************************************************************************)
(* route, lines 59-102.                                                    *)
(***************************************************************************)
TodayWindow(today) == [since |-> today \o "T00:00:00", until |-> today \o "T23:59:59"]

\* The mutated helper: today's window replaces whatever the caller supplied.
EnsureDailyWindowAlways(payload, today) ==
    [payload EXCEPT !.window = TodayWindow(today)]

EnsureDailyWindow(payload, today) ==
    IF payload.window = NoWindow
    THEN [payload EXCEPT !.window = TodayWindow(today)]
    ELSE payload

\* The mutated choice: the window is ensured whatever the mode.
RoutePayloadAlways(payload, daily, today) == EnsureDailyWindow(payload, today)

\* The payload written into user_input: line 88 on the daily path, line 97 otherwise.
RoutePayload(payload, daily, today) ==
    IF daily THEN EnsureDailyWindow(payload, today) ELSE payload

RouteQuery(payload) == Lower(Strip(OrStr(payload.query, payload.prompt)))

UserInput(payload, query, mode) == [payload |-> payload, query |-> query, mode |-> mode]

ErrorEnvelope(mode, trace_id) ==
    [status |-> "error",
     error |-> IF mode = "daily"
               THEN "Router produced non-JSON response (daily report)"
               ELSE "Router produced non-JSON response",
     traceId |-> trace_id]

\* The mutated result: the trace id of the request is stamped on what the agent returned.
RouteResultStamped(text, mode, trace_id) ==
    IF text.json /\ "traceId" \in DOMAIN text.value
    THEN [text.value EXCEPT !.traceId = trace_id]
    ELSE ErrorEnvelope(mode, trace_id)

\* try: return json.loads(text)  except: return the error envelope
RouteResult(text, mode, trace_id) ==
    IF text.json THEN text.value ELSE ErrorEnvelope(mode, trace_id)

(***************************************************************************)
(* The router agent, lines 28-57, and the replies of its tools.  A text is *)
(* [json, value]: whether json.loads accepts it, and what it then yields.  *)
(***************************************************************************)
Text(isJson, v) == [json |-> isJson, value |-> v]

\* What a tool may hand back for a payload: an ok envelope, an error envelope of the
\* backend, JSON that is no envelope, or text that is no JSON (a gateway page, or
\* the error text the runner substitutes for a failed call).
OkReply(tool, payload) ==
    Text(TRUE, [status |-> "ok", data |-> [source |-> tool, window |-> payload.window],
                error |-> "", traceId |-> payload.traceId])

ErrorReply(tool, payload) ==
    Text(TRUE, [status |-> "error", error |-> tool \o " failed",
                traceId |-> payload.traceId])

NonEnvelopeReply(tool) == Text(TRUE, [items |-> tool])

GarbageReply(tool) == Text(FALSE, [raw |-> "<html>502 " \o tool \o "</html>"])

Raised(tool) == Text(FALSE, [raw |-> tool \o " raised"])

Pending(tool) == Text(FALSE, [raw |-> tool \o " pending"])

Replies(tool, payload) ==
    {OkReply(tool, payload), ErrorReply(tool, payload), NonEnvelopeReply(tool),
     GarbageReply(tool)}

\* "If the user's query indicates a DAILY REPORT (keywords like: ...)"
AgentSeesDaily(ui) == ui.mode = "daily" \/ Matches(InstructionDailyKws, ui.query)

\* The mutated routing: every tool is a candidate whatever the query says.
SingleCandidatesAny(query) == { Tools[i] : i \in 1..Len(Tools) }

\* "Otherwise, route as follows": the tools whose bucket has a keyword in the query.
SingleCandidates(query) ==
    { Tools[i] : i \in { j \in 1..Len(Tools) : Matches(ToolKws(Tools[j]), query) } }

\* The mutated plan: the tool of a single-target request is called a second time.
AgentPlansRetry(ui) ==
    IF AgentSeesDaily(ui) THEN {Tools}
    ELSE LET c == SingleCandidates(ui.query)
         IN  IF c = {} THEN {<<>>} ELSE { <<t, t>> : t \in c }

\* The sequences of tool calls the instruction allows for an input.
AgentPlans(ui) ==
    IF AgentSeesDaily(ui) THEN {Tools}
    ELSE LET c == SingleCandidates(ui.query)
         IN  IF c = {} THEN {<<>>} ELSE { <<t>> : t \in c }

\* '{"status":"ok","data":{"answer":"..."},"error":null,"traceId":payload.traceId}'
SelfAnswer(ui) ==
    [status |-> "ok", data |-> [answer |-> "brief answer"], error |-> "",
     traceId |-> ui.payload.traceId]

\* What the agent writes in place of a tool reply that is no JSON when it keeps to
\* "always return valid JSON".
AgentError(call) ==
    [status |-> "error", error |-> call.tool \o " gave no JSON",
     traceId |-> call.payload.traceId]

Slot(call) == IF call.reply.json THEN call.reply.value ELSE AgentError(call)

\* The merged JSON of the daily report; with a reply that is no JSON pasted in as it
\* is, the whole text is no JSON.
Merged(ui, cs, repair) ==
    IF repair \/ \A i \in 1..Len(cs) : cs[i].reply.json
    THEN Text(TRUE, [status |-> "ok",
                     data |-> [banking |-> Slot(cs[1]), calendar |-> Slot(cs[2]),
                               gmail |-> Slot(cs[3])],
                     summary |-> "Daily report for " \o SubSeq(ui.payload.window.since, 1, 10),
                     error |-> "", traceId |-> ui.payload.traceId])
    ELSE Text(FALSE, [raw |-> "merged text with a reply that is no JSON"])

\* The texts the last event of the run may carry.
FinalTexts(ui, cs) ==
    IF AgentSeesDaily(ui) THEN { Merged(ui, cs, repair) : repair \in BOOLEAN }
    ELSE IF cs = <<>> THEN { Text(TRUE, SelfAnswer(ui)) }
    ELSE IF cs[1].reply.json THEN { cs[1].reply }
    ELSE { cs[1].reply, Text(TRUE, AgentError(cs[1])) }

(***************************************************************************)
(* The state machine of route.                                             *)
(***************************************************************************)
BankOff ==
    /\ bank = Ledger(<<>>, 0)
    /\ window = [since |-> TsNone, until |-> TsNone]
    /\ traceId = ""
    /\ impl = "none"
    /\ report = NoReport
    /\ bpc = "off"

InitRouter ==
    /\ rq \in Requests
    /\ rpc = "idle"
    /\ local = NoLocal
    /\ todo = <<>>
    /\ calls = <<>>
    /\ final = NoText
    /\ response = NoResponse
    /\ runs = 0
    /\ BankOff
    /\ CalendarOff
    /\ BotOff
    /\ ServerOff
    /\ AppCalendarOff

\* Lines 80-90 and 97-98: up to the call of run_agent_once, where the agent reads its
\* input and settles which tools it is going to call.
RouteBegin ==
    /\ rpc = "idle"
    /\ \E today \in Dates :
        LET payload0 == rq.payload
            trace_id == OrStr(rq.traceId, payload0.traceId)
            query    == RouteQuery(payload0)
            daily    == Matches(DAILY_KWS, query)
            payload  == RoutePayload(payload0, daily, today)
            mode     == IF daily THEN "daily" ELSE "single"
        IN  /\ local' = [trace_id |-> trace_id, query |-> query,
                         payload |-> payload, mode |-> mode]
            /\ todo' \in AgentPlans(UserInput(payload, query, mode))
    /\ runs' = runs + 1
    /\ rpc' = "agent"
    /\ UNCHANGED <<rq, calls, final, response>>
    /\ UNCHANGED bankVars
    /\ UNCHANGED calVars
    /\ UNCHANGED botVars
    /\ UNCHANGED serverVars
    /\ UNCHANGED appVars

\* The agent calls its next tool and the tool replies.
AgentCall ==
    /\ rpc = "agent"
    /\ todo # <<>>
    /\ \E reply \in Replies(Head(todo), local.payload) :
        calls' = Append(calls, [tool |-> Head(todo), payload |-> local.payload,
                                reply |-> reply])
    /\ todo' = Tail(todo)
    /\ UNCHANGED <<rq, rpc, local, final, response, runs>>
    /\ UNCHANGED bankVars
    /\ UNCHANGED calVars
    /\ UNCHANGED botVars
    /\ UNCHANGED serverVars
    /\ UNCHANGED appVars

\* The call of the next tool raises and run_agent_once lets the exception through:
\* lines 90 and 98 stand outside the try, so route raises as well.
AgentCallRaises ==
    /\ rpc = "agent"
    /\ todo # <<>>
    /\ calls' = Append(calls, [tool |-> Head(todo), payload |-> local.payload,
                               reply |-> Raised(Head(todo))])
    /\ rpc' = "raised"
    /\ UNCHANGED <<rq, local, todo, final, response, runs>>
    /\ UNCHANGED bankVars
    /\ UNCHANGED calVars
    /\ UNCHANGED botVars
    /\ UNCHANGED serverVars
    /\ UNCHANGED appVars

\* The backend of the next tool accepts the call and never answers.  Neither the
\* tools (lines 31-35) nor run_agent_once (lines 90, 98) are given a timeout, so the
\* run, and route with it, waits for good.
AgentCallHangs ==
    /\ rpc = "agent"
    /\ todo # <<>>
    /\ calls' = Append(calls, [tool |-> Head(todo), payload |-> local.payload,
                               reply |-> Pending(Head(todo))])
    /\ rpc' = "blocked"
    /\ UNCHANGED <<rq, local, todo, final, response, runs>>
    /\ UNCHANGED bankVars
    /\ UNCHANGED calVars
    /\ UNCHANGED botVars
    /\ UNCHANGED serverVars
    /\ UNCHANGED appVars

\* The agent has made its calls and writes its last event.
AgentFinish ==
    /\ rpc = "agent"
    /\ todo = <<>>
    /\ final' \in FinalTexts(UserInput(local.payload, local.query, local.mode), calls)
    /\ rpc' = "parse"
    /\ UNCHANGED <<rq, local, todo, calls, response, runs>>
    /\ UNCHANGED bankVars
    /\ UNCHANGED calVars
    /\ UNCHANGED botVars
    /\ UNCHANGED serverVars
    /\ UNCHANGED appVars

\* Lines 91-94 and 99-102.
RouteReturn ==
    /\ rpc = "parse"
    /\ response' = RouteResult(final, local.mode, local.trace_id)
    /\ rpc' = "returned"
    /\ UNCHANGED <<rq, local, todo, calls, final, runs>>
    /\ UNCHANGED bankVars
    /\ UNCHANGED calVars
    /\ UNCHANGED botVars
    /\ UNCHANGED serverVars
    /\ UNCHANGED appVars

NextRouter ==
    RouteBegin \/ AgentCall \/ AgentCallRaises \/ AgentCallHangs \/ AgentFinish \/ RouteReturn

SpecRouter == InitRouter /\ [][NextRouter]_vars

\* Once the agent run has started, the agent, the backends that answer and the last
\* lines of route keep running: a step of theirs that stays possible is taken.
SpecRouterLive == SpecRouter /\ WF_vars(AgentCall \/ AgentFinish \/ RouteReturn)

(***************************************************************************)
(* The calendar adapter handle_event_request_for_router.  The calendar     *)
(* service is outside the program: each call of it either answers or       *)
(* raises, and the free/busy answer is either free or busy.                *)
(***************************************************************************)
DefaultDurationMin == 30

\* dt.datetime.fromisoformat(s.replace("Z", "+00:00")): the datetime, aware or naive,
\* or ValueError (ok = FALSE).
FromIsoFormat(s) ==
    IF s.fmt \in {"naive", "Z", "offset"}
    THEN [ok |-> TRUE, aware |-> s.fmt # "naive", m |-> s.m]
    ELSE [ok |-> FALSE, aware |-> FALSE, m |-> 0]

\* datetime.isoformat(): an aware datetime is written with its offset, never with Z.
IsoFormat(d) == DateTime(IF d.aware THEN "offset" ELSE "naive", d.m)

\* Line 177-178: the end of an event that came without one.
DefaultEnd(start_iso_in) ==
    LET start_dt == FromIsoFormat(start_iso_in)
    IN  IsoFormat([start_dt EXCEPT !.m = @ + DefaultDurationMin])

\* Lines 198-199: .astimezone(utc).isoformat().replace("+00:00", "Z"); a naive
\* datetime is read in the zone of the machine, sysoff minutes east of UTC.
UtcZ(s, sysoff) ==
    LET d == FromIsoFormat(s)
    IN  DateTime("Z", IF d.aware THEN d.m ELSE d.m - sysoff)

SystemOffsets == {0, -240}

StartKeys ==
    {TimeKey("missing", DtNone), TimeKey("null", DtNone), TimeKey("str", DtNone)}
    \cup {TimeKey("dict", d) :
            d \in {DtNone, DtEmpty, DtBad, DateTime("naive", 600), DateTime("Z", 600)}}

EndKeys ==
    {TimeKey("missing", DtNone), TimeKey("dict", DtBad),
     TimeKey("dict", DateTime("naive", 660))}

ReminderKeys ==
    {Reminders("missing", "absent"), Reminders("dict", "absent"),
     Reminders("dict", "15"), Reminders("dict", "soon")}

CalPayloads ==
    {NoCalPayload("missing"), NoCalPayload("null")}
    \cup {CalPayload("dict", s, e, r) : s \in StartKeys, e \in EndKeys, r \in ReminderKeys}

CalUsers ==
    {CalUser("missing", ""), CalUser("null", ""), CalUser("dict", ""),
     CalUser("dict", "America/New_York")}

\* traceId "" stands for a request without one (None).
CalRequests == [traceId : {"", "t1"}, payload : CalPayloads, user : CalUsers]

KwArgs == [use_app_calendar : BOOLEAN, check_freebusy : BOOLEAN]

\* (payload.get(key) or {}).get("dateTime"), where it does not raise.
DateTimeOf(key) == IF key.shape = "dict" THEN key.dateTime ELSE DtNone

\* Lines 167-172: the exception of the reads of the request, "" if there is none.
\* req.get("payload", {}) and req.get("user", {}) give None for a null value, and
\* `payload.get("start") or {}` keeps a string.
ReadError(r) ==
    IF r.user.shape = "null" \/ r.payload.shape = "null" THEN "AttributeError"
    ELSE IF r.payload.start.shape = "str" \/ r.payload.end.shape = "str"
         THEN "AttributeError"
    ELSE ""

\* An exception that leaves the handler.
Escaped(exc) == [status |-> "raised", error |-> exc]

NoData == [eventId |-> "", htmlLink |-> "", when |-> [start |-> DtNone, end |-> DtNone]]

\* The envelopes of lines 174, 205 and 208-217; error "" stands for None.
CalEnvelope(status, data, error, trace_id) ==
    [status |-> status, data |-> data, error |-> error, traceId |-> trace_id]

\* A call made outside the handler.
Outside(op, a, b) == [op |-> op, timeMin |-> a, timeMax |-> b]

\* Lines 180-183: the popup overrides, <<>> without reminders.
Overrides(rem) ==
    IF rem.shape # "dict" THEN <<>>
    ELSE <<[method |-> "popup",
            minutes |-> IF rem.minutesBefore = "absent" THEN 10 ELSE 15]>>

InitCalendar ==
    /\ req \in CalRequests
    /\ kwargs \in KwArgs
    /\ cpc = "idle"
    /\ frame = NoFrame
    /\ outside = <<>>
    /\ events = <<>>
    /\ result = NoResult
    /\ BankOff
    /\ RouterOff
    /\ BotOff
    /\ ServerOff
    /\ AppCalendarOff

\* Lines 166-174.
ReadRequest ==
    /\ cpc = "idle"
    /\ LET trace_id     == req.traceId
           tz           == IF req.user.tz = "" THEN "UTC" ELSE req.user.tz
           start_iso_in == DateTimeOf(req.payload.start)
           end_iso_in   == DateTimeOf(req.payload.end)
       IN  IF ReadError(req) # ""
           THEN /\ cpc' = "raised"
                /\ result' = Escaped(ReadError(req))
                /\ frame' = frame
           ELSE IF start_iso_in.fmt \in {"none", "empty"}
           THEN /\ cpc' = "returned"
                /\ result' = CalEnvelope("error", NoData, "Missing start dateTime", trace_id)
                /\ frame' = [frame EXCEPT !.trace_id = trace_id, !.tz = tz]
           ELSE /\ cpc' = "read"
                /\ result' = result
                /\ frame' = [frame EXCEPT !.trace_id = trace_id, !.tz = tz,
                                          !.start_iso_in = start_iso_in,
                                          !.end_iso_in = end_iso_in]
    /\ UNCHANGED <<req, kwargs, outside, events>>
    /\ UNCHANGED <<bankVars, routerVars>>
    /\ UNCHANGED botVars
    /\ UNCHANGED serverVars
    /\ UNCHANGED appVars

\* Lines 176-191: the default end, the reminder overrides and the event body.
BuildEvent ==
    /\ cpc = "read"
    /\ IF frame.end_iso_in.fmt \in {"none", "empty"} /\ ~FromIsoFormat(frame.start_iso_in).ok
       THEN /\ cpc' = "raised"
            /\ result' = Escaped("ValueError")
            /\ frame' = frame
       ELSE IF req.payload.reminders.shape = "dict"
               /\ req.payload.reminders.minutesBefore = "soon"
       THEN /\ cpc' = "raised"
            /\ result' = Escaped("ValueError")
            /\ frame' = frame
       ELSE /\ cpc' = "built"
            /\ result' = result
            /\ frame' = [frame EXCEPT
                            !.end_iso_in = IF @.fmt \in {"none", "empty"}
                                           THEN DefaultEnd(frame.start_iso_in) ELSE @,
                            !.overrides = Overrides(req.payload.reminders)]
    /\ UNCHANGED <<req, kwargs, outside, events>>
    /\ UNCHANGED <<bankVars, routerVars>>
    /\ UNCHANGED botVars
    /\ UNCHANGED serverVars
    /\ UNCHANGED appVars

\* Line 193: _get_calendar_service answers or raises (no client secret, a refresh
\* that fails).
GetService ==
    /\ cpc = "built"
    /\ outside' = Append(outside, Outside("_get_calendar_service", DtNone, DtNone))
    /\ \E outcome \in {"ok", "FileNotFoundError", "RefreshError"} :
        IF outcome = "ok"
        THEN cpc' = "service" /\ result' = result
        ELSE cpc' = "raised" /\ result' = Escaped(outcome)
    /\ UNCHANGED <<req, kwargs, frame, events>>
    /\ UNCHANGED <<bankVars, routerVars>>
    /\ UNCHANGED botVars
    /\ UNCHANGED serverVars
    /\ UNCHANGED appVars

\* Line 194: the calendar of the application, looked up and created if it is not
\* there, or "primary".
GetCalendar ==
    /\ cpc = "service"
    /\ IF kwargs.use_app_calendar
       THEN \E outcome \in {"found", "created", "HttpError"} :
             /\ outside' =
                  outside \o <<Outside("calendarList.list", DtNone, DtNone)>>
                  \o (IF outcome = "created"
                      THEN <<Outside("calendars.insert", DtNone, DtNone)>> ELSE <<>>)
             /\ IF outcome = "HttpError"
                THEN cpc' = "raised" /\ result' = Escaped(outcome) /\ frame' = frame
                ELSE /\ cpc' = "calendar"
                     /\ result' = result
                     /\ frame' = [frame EXCEPT !.calendar_id = "app"]
       ELSE /\ outside' = outside
            /\ cpc' = "calendar"
            /\ result' = result
            /\ frame' = [frame EXCEPT !.calendar_id = "primary"]
    /\ UNCHANGED <<req, kwargs, events>>
    /\ UNCHANGED <<bankVars, routerVars>>
    /\ UNCHANGED botVars
    /\ UNCHANGED serverVars
    /\ UNCHANGED appVars

\* Lines 196-205: the free/busy query over the interval of the event.
QueryFreebusy ==
    /\ cpc = "calendar"
    /\ kwargs.check_freebusy
    /\ IF ~FromIsoFormat(frame.start_iso_in).ok \/ ~FromIsoFormat(frame.end_iso_in).ok
       THEN /\ cpc' = "raised"
            /\ result' = Escaped("ValueError")
            /\ outside' = outside
       ELSE \E sysoff \in SystemOffsets : \E outcome \in {"free", "busy", "HttpError"} :
             /\ outside' = Append(outside,
                                  Outside("freebusy.query",
                                          UtcZ(frame.start_iso_in, sysoff),
                                          UtcZ(frame.end_iso_in, sysoff)))
             /\ CASE outcome = "HttpError" ->
                        cpc' = "raised" /\ result' = Escaped(outcome)
                  [] outcome = "busy" ->
                        /\ cpc' = "returned"
                        /\ result' = CalEnvelope("conflict", NoData,
                                                 "Requested time is busy", frame.trace_id)
                  [] OTHER ->
                        cpc' = "free" /\ result' = result
    /\ UNCHANGED <<req, kwargs, frame, events>>
    /\ UNCHANGED <<bankVars, routerVars>>
    /\ UNCHANGED botVars
    /\ UNCHANGED serverVars
    /\ UNCHANGED appVars

\* Lines 185-191: the body of the event.
EventBody ==
    [summary |-> "(No title)", start |-> frame.start_iso_in, end |-> frame.end_iso_in,
     timeZone |-> frame.tz, overrides |-> frame.overrides,
     calendarId |-> frame.calendar_id]

\* Lines 207-217: the insertion of the event and the envelope that tells of it.
InsertEvent ==
    /\ \/ cpc = "free"
       \/ cpc = "calendar" /\ ~kwargs.check_freebusy
    /\ outside' = Append(outside,
                         Outside("events.insert", frame.start_iso_in, frame.end_iso_in))
    /\ \E outcome \in {"created", "HttpError"} :
        IF outcome = "HttpError"
        THEN cpc' = "raised" /\ result' = Escaped(outcome) /\ events' = events
        ELSE /\ events' = Append(events, EventBody)
             /\ cpc' = "returned"
             /\ result' = CalEnvelope("ok",
                                      [eventId |-> "ev1", htmlLink |-> "link1",
                                       when |-> [start |-> frame.start_iso_in,
                                                 end |-> frame.end_iso_in]],
                                      "", frame.trace_id)
    /\ UNCHANGED <<req, kwargs, frame>>
    /\ UNCHANGED <<bankVars, routerVars>>
    /\ UNCHANGED botVars
    /\ UNCHANGED serverVars
    /\ UNCHANGED appVars

NextCalendar ==
    \/ ReadRequest
    \/ BuildEvent
    \/ GetService
    \/ GetCalendar
    \/ QueryFreebusy
    \/ InsertEvent

SpecCalendar == InitCalendar /\ [][NextCalendar]_vars

(***************************************************************************)
(* The Discord mirror bot: IngestClient.post and MirrorBot.on_message.     *)
(* The inlet is outside the program: a POST either raises before a         *)
(* response is there or gets a response with a status, and the body of a   *)
(* response that is not 200 is read (resp.text()), which can raise too.    *)
(***************************************************************************)
MaxAttempts == 3       \* largest attempts argument of a direct call of post

DefaultAttempts == 3

\* What came of one POST: status 0 stands for an exception before any response;
\* text tells whether the body was read ("read"), could not be read ("raises") or was
\* not asked for ("unread").
Post(status, text) == [status |-> status, text |-> text]

Statuses == {200, 201, 399, 400, 499, 500}

PostOutcomes ==
    {Post(0, "unread"), Post(200, "unread")}
    \cup {Post(st, tx) : st \in Statuses \ {200}, tx \in {"read", "raises"}}

\* Line 123: 400 <= resp.status < 500
ClientError(status) == 400 <= status /\ status < 500

\* Lines 116-126, one pass of the loop body: "True" and "False" are returns, "retry"
\* falls through to the backoff.
AttemptResult(o) ==
    IF o.status = 0 THEN "retry"
    ELSE IF o.status = 200 THEN "True"
    ELSE IF o.text = "raises" THEN "retry"
    ELSE IF ClientError(o.status) THEN "False"
    ELSE "retry"

\* Line 128: 0.3 * (2 ** i) seconds, in tenths of a second.
Backoff(n) == 3 * (2 ^ n)

\* A mutation of the acknowledgement: always the text of a success.
AckContentAlwaysOk(dm, ok) ==
    IF dm THEN "[check] Sent your message to the frontend." ELSE "[outbox]"

\* Lines 205 and 212: the text of the DM reply and the emoji of the reaction (the
\* emoji written by name).
AckContent(dm, ok) ==
    IF dm
    THEN (IF ok THEN "[check] Sent your message to the frontend."
                ELSE "[warning] Couldn't reach the frontend inlet.")
    ELSE (IF ok THEN "[outbox]" ELSE "[warning]")

\* An acknowledgement issued: a DM reply ("send") or a reaction ("add_reaction"),
\* delivered or failed.
Ack(kind, content, delivered) ==
    [kind |-> kind, content |-> content, delivered |-> delivered]

Messages == {Message("on_message", b, d) : b \in BOOLEAN, d \in BOOLEAN}

InitBot ==
    /\ \/ message \in Messages /\ attempts = DefaultAttempts
       \/ message = Message("post", FALSE, FALSE) /\ attempts \in 0..MaxAttempts
    /\ ipc = "idle"
    /\ iter = 0
    /\ posts = <<>>
    /\ slept = <<>>
    /\ postCalls = 0
    /\ posted = "none"
    /\ acks = <<>>
    /\ BankOff
    /\ RouterOff
    /\ CalendarOff
    /\ ServerOff
    /\ AppCalendarOff

\* Lines 193-199: on_message up to its call of self.ingest.post(payload).
OnMessage ==
    /\ ipc = "idle"
    /\ message.entry = "on_message"
    /\ IF message.bot
       THEN ipc' = "done" /\ postCalls' = postCalls
       ELSE ipc' = "loop" /\ postCalls' = postCalls + 1
    /\ UNCHANGED <<message, attempts, iter, posts, slept, posted, acks>>
    /\ UNCHANGED <<bankVars, routerVars, calVars>>
    /\ UNCHANGED serverVars
    /\ UNCHANGED appVars

\* Lines 105-112: a call of post from elsewhere, with its own attempts.
CallPost ==
    /\ ipc = "idle"
    /\ message.entry = "post"
    /\ ipc' = "loop"
    /\ postCalls' = postCalls + 1
    /\ UNCHANGED <<message, attempts, iter, posts, slept, posted, acks>>
    /\ UNCHANGED <<bankVars, routerVars, calVars>>
    /\ UNCHANGED serverVars
    /\ UNCHANGED appVars

\* Lines 114-126: one pass of the loop, with one POST.
Attempt ==
    /\ ipc = "loop"
    /\ iter < attempts
    /\ \E o \in PostOutcomes :
        /\ posts' = Append(posts, o)
        /\ CASE AttemptResult(o) = "True"  -> ipc' = "posted" /\ posted' = "True"
             [] AttemptResult(o) = "False" -> ipc' = "posted" /\ posted' = "False"
             [] OTHER                      -> ipc' = "sleep" /\ posted' = posted
    /\ UNCHANGED <<message, attempts, iter, slept, postCalls, acks>>
    /\ UNCHANGED <<bankVars, routerVars, calVars>>
    /\ UNCHANGED serverVars
    /\ UNCHANGED appVars

\* Line 128: the backoff after a pass that did not return.
Sleep ==
    /\ ipc = "sleep"
    /\ slept' = Append(slept, Backoff(iter))
    /\ iter' = iter + 1
    /\ ipc' = "loop"
    /\ UNCHANGED <<message, attempts, posts, postCalls, posted, acks>>
    /\ UNCHANGED <<bankVars, routerVars, calVars>>
    /\ UNCHANGED serverVars
    /\ UNCHANGED appVars

\* Line 129: the loop is over without a return.
GiveUp ==
    /\ ipc = "loop"
    /\ iter >= attempts
    /\ ipc' = "posted"
    /\ posted' = "False"
    /\ UNCHANGED <<message, attempts, iter, posts, slept, postCalls, acks>>
    /\ UNCHANGED <<bankVars, routerVars, calVars>>
    /\ UNCHANGED serverVars
    /\ UNCHANGED appVars

\* Lines 201-214: the acknowledgement, whose failure is swallowed.
Acknowledge ==
    /\ ipc = "posted"
    /\ message.entry = "on_message"
    /\ \E delivered \in BOOLEAN :
        acks' = Append(acks, Ack(IF message.dm THEN "send" ELSE "add_reaction",
                                 AckContent(message.dm, posted = "True"), delivered))
    /\ ipc' = "done"
    /\ UNCHANGED <<message, attempts, iter, posts, slept, postCalls, posted>>
    /\ UNCHANGED <<bankVars, routerVars, calVars>>
    /\ UNCHANGED serverVars
    /\ UNCHANGED appVars

NextBot == OnMessage \/ CallPost \/ Attempt \/ Sleep \/ GiveUp \/ Acknowledge

SpecBot == InitBot /\ [][NextBot]_vars

(***************************************************************************)
(* The inlet: ingest_message of src/ingest_server.py.  request.get_json()  *)
(* belongs to Flask: it raises BadRequest for a body that is no JSON, and  *)
(* for a request whose Content-Type is not JSON it returns None or raises  *)
(* UnsupportedMediaType, depending on the version installed.               *)
(***************************************************************************)
EXPECTED_SECRET == "dev-secret"

JsonValues ==
    {JsonNull,
     Json("object", 0, "absent", "absent", "absent"),
     Json("array", 0, "absent", "absent", "absent"),
     Json("array", 1, "absent", "absent", "absent"),
     Json("number", 0, "absent", "absent", "absent"),
     Json("string", 2, "absent", "absent", "absent"),
     Json("object", 1, "absent", "absent", "absent"),
     Json("object", 3, "object", "object", "null"),
     Json("object", 3, "object", "object", "object"),
     Json("object", 2, "null", "object", "absent"),
     Json("object", 3, "object", "object", "string")}

HttpRequests ==
    {HttpRequest(s, j, "json", v) :
        s \in {"dev-secret", "Dev-Secret", ""}, j \in BOOLEAN, v \in JsonValues}
    \cup {HttpRequest(s, j, w, JsonNull) :
            s \in {"dev-secret", "Dev-Secret", ""}, j \in BOOLEAN,
            w \in {"empty", "malformed"}}

\* What request.get_json() can do with the request: return a value or None, or
\* raise.
GetJsonOutcomes(r) ==
    IF ~r.isJson
    THEN {[raises |-> "", value |-> JsonNull],
          [raises |-> "UnsupportedMediaType", value |-> JsonNull]}
    ELSE IF r.wire # "json"
    THEN {[raises |-> "BadRequest", value |-> JsonNull]}
    ELSE {[raises |-> "", value |-> r.value]}

\* `not data`: None, 0, "", [] and {} are falsy.
FalsyJson(v) == v.type = "null" \/ v.size = 0

\* Line 29: if not data
NoData400(v) == FalsyJson(v)

\* Lines 35-39: the exception of the prints, "" for none.  data.get exists on an
\* object only, and .get("name") is called on what is under "author" and "channel"
\* (the default {} stands in only for a missing key) and on a truthy "guild".
PrintError(v) ==
    IF v.type # "object" THEN "AttributeError"
    ELSE IF v.author \in {"null", "string"} THEN "AttributeError"
    ELSE IF v.channel \in {"null", "string"} THEN "AttributeError"
    ELSE IF v.guild = "string" THEN "AttributeError"
    ELSE ""

HttpReply(code, error, status) == [code |-> code, error |-> error, status |-> status]

InitServer ==
    /\ request \in HttpRequests
    /\ spc = "idle"
    /\ jsonData = JsonNull
    /\ caught = ""
    /\ bodyRead = FALSE
    /\ processed = <<>>
    /\ httpReply = NoReply
    /\ BankOff
    /\ RouterOff
    /\ CalendarOff
    /\ BotOff
    /\ AppCalendarOff

\* Lines 21-23.
CheckSecret ==
    /\ spc = "idle"
    /\ IF request.secret # EXPECTED_SECRET
       THEN /\ httpReply' = HttpReply(401, "Invalid secret", "")
            /\ spc' = "done"
       ELSE /\ httpReply' = httpReply
            /\ spc' = "authorized"
    /\ UNCHANGED <<request, jsonData, caught, bodyRead, processed>>
    /\ UNCHANGED <<bankVars, routerVars, calVars, botVars>>
    /\ UNCHANGED appVars

\* Line 27: request.get_json(), which reads the body when the Content-Type is JSON.
GetJson ==
    /\ spc = "authorized"
    /\ bodyRead' = request.isJson
    /\ \E o \in GetJsonOutcomes(request) :
        IF o.raises # ""
        THEN spc' = "except" /\ caught' = o.raises /\ jsonData' = jsonData
        ELSE spc' = "parsed" /\ caught' = caught /\ jsonData' = o.value
    /\ UNCHANGED <<request, processed, httpReply>>
    /\ UNCHANGED <<bankVars, routerVars, calVars, botVars>>
    /\ UNCHANGED appVars

\* Lines 29-51: the test for no data, the prints and the answer.
Process ==
    /\ spc = "parsed"
    /\ IF NoData400(jsonData)
       THEN /\ httpReply' = HttpReply(400, "No JSON data provided", "")
            /\ spc' = "done"
            /\ UNCHANGED <<caught, processed>>
       ELSE IF PrintError(jsonData) # ""
       THEN /\ spc' = "except"
            /\ caught' = PrintError(jsonData)
            /\ UNCHANGED <<httpReply, processed>>
       ELSE /\ processed' = Append(processed, jsonData)
            /\ httpReply' = HttpReply(200, "", "success")
            /\ spc' = "done"
            /\ caught' = caught
    /\ UNCHANGED <<request, jsonData, bodyRead>>
    /\ UNCHANGED <<bankVars, routerVars, calVars, botVars>>
    /\ UNCHANGED appVars

\* Lines 53-55: whatever was raised inside the try is answered with 500.
HandleException ==
    /\ spc = "except"
    /\ httpReply' = HttpReply(500, caught, "")
    /\ spc' = "done"
    /\ UNCHANGED <<request, jsonData, caught, bodyRead, processed>>
    /\ UNCHANGED <<bankVars, routerVars, calVars, botVars>>
    /\ UNCHANGED appVars

NextServer == CheckSecret \/ GetJson \/ Process \/ HandleException

SpecServer == InitServer /\ [][NextServer]_vars

(***************************************************************************)
(* _get_or_create_app_calendar.  The service lists the calendars of the    *)
(* account page by page and appends a calendar it is asked to create; a    *)
(* call of it can raise, and an insert can raise after the calendar was    *)
(* made.  Ids are numbers: the calendar at position k of the list has id k.*)
(***************************************************************************)
MaxCalendars == 3      \* calendars of the account before the first call
MaxCalls == 2          \* calls of _get_or_create_app_calendar, one after another

APP_CALENDAR_SUMMARY == "Reminders - ShellHacks"

Summaries == {"Reminders - ShellHacks", "reminders - shellhacks", "Work"}

CalendarEntry(id, summary) == [id |-> id, summary |-> summary]

\* The calendar lists drawn: up to MaxCalendars entries with ids 1, 2, 3, ...
CalendarLists ==
    UNION { { [k \in 1..n |-> CalendarEntry(k, f[k])] : f \in [1..n -> Summaries] } :
            n \in 0..MaxCalendars }

\* calendarList().list(pageToken = token).execute(): the entries from position
\* token + 1 on, pageSize of them at most, and the token of the page after.
ListPage(cals, token, size) ==
    LET last == IF token + size < Len(cals) THEN token + size ELSE Len(cals)
    IN  [items |-> SubSeq(cals, token + 1, last),
         nextPageToken |-> IF last < Len(cals) THEN last ELSE 0]

\* Lines 69-71: the id of the first item of the page whose summary is the one looked
\* for, 0 if there is none.
FirstMatch(items, summary) ==
    IF \E k \in 1..Len(items) : items[k].summary = summary
    THEN items[CHOOSE k \in 1..Len(items) :
                   /\ items[k].summary = summary
                   /\ \A j \in 1..(k - 1) : items[j].summary # summary].id
    ELSE 0

\* A mutation of the test of line 73: the loop ends after the first page.
MorePagesNever(token) == FALSE

\* Line 73: `if not page_token: break`
MorePages(token) == token # 0

InitAppCalendar ==
    /\ calendars \in CalendarLists
    /\ initial = calendars
    /\ pageSize \in {1, 2}
    /\ gpc = "idle"
    /\ pageToken = 0
    /\ pageItems = NoPage
    /\ seen = 0
    /\ made = 0
    /\ ids = <<>>
    /\ ncalls = 0
    /\ BankOff
    /\ RouterOff
    /\ CalendarOff
    /\ BotOff
    /\ ServerOff

\* Line 66: a call begins, the first or one after a call that is over.
BeginCall ==
    /\ gpc \in {"idle", "returned", "raised"}
    /\ ncalls < MaxCalls
    /\ ncalls' = ncalls + 1
    /\ pageToken' = 0
    /\ pageItems' = NoPage
    /\ seen' = 0
    /\ made' = 0
    /\ gpc' = "list"
    /\ UNCHANGED <<calendars, pageSize, ids, initial>>
    /\ UNCHANGED <<bankVars, routerVars, calVars, botVars, serverVars>>

\* Line 68: one page of the calendar list is fetched, or the call raises.
FetchPage ==
    /\ gpc = "list"
    /\ \/ /\ pageItems' = ListPage(calendars, pageToken, pageSize)
          /\ gpc' = "scan"
       \/ /\ pageItems' = pageItems
          /\ gpc' = "raised"
    /\ UNCHANGED <<calendars, pageSize, pageToken, seen, made, ids, ncalls, initial>>
    /\ UNCHANGED <<bankVars, routerVars, calVars, botVars, serverVars>>

\* Lines 69-74: the page is searched; a match is returned, else the next page is
\* asked for or the loop ends.
ScanPage ==
    /\ gpc = "scan"
    /\ LET found == FirstMatch(pageItems.items, APP_CALENDAR_SUMMARY)
       IN  IF found # 0
           THEN /\ ids' = Append(ids, found)
                /\ gpc' = "returned"
                /\ seen' = seen + Len(pageItems.items)
                /\ pageToken' = pageToken
           ELSE /\ ids' = ids
                /\ seen' = seen + Len(pageItems.items)
                /\ pageToken' = pageItems.nextPageToken
                /\ gpc' = IF MorePages(pageItems.nextPageToken) THEN "list" ELSE "insert"
    /\ UNCHANGED <<calendars, pageSize, pageItems, made, ncalls, initial>>
    /\ UNCHANGED <<bankVars, routerVars, calVars, botVars, serverVars>>

\* Lines 75-76: the calendar is created and its id returned; the insert can raise
\* before or after the service has made the calendar.
InsertCalendar ==
    /\ gpc = "insert"
    /\ \E outcome \in {"created", "refused", "lost"} :
        /\ calendars' = IF outcome = "refused" THEN calendars
                        ELSE Append(calendars,
                                    CalendarEntry(Len(calendars) + 1, APP_CALENDAR_SUMMARY))
        /\ made' = IF outcome = "refused" THEN made ELSE made + 1
        /\ ids' = IF outcome = "created" THEN Append(ids, Len(calendars) + 1) ELSE ids
        /\ gpc' = IF outcome = "created" THEN "returned" ELSE "raised"
    /\ UNCHANGED <<pageSize, pageToken, pageItems, seen, ncalls, initial>>
    /\ UNCHANGED <<bankVars, routerVars, calVars, botVars, serverVars>>

NextAppCalendar == BeginCall \/ FetchPage \/ ScanPage \/ InsertCalendar

SpecAppCalendar == InitAppCalendar /\ [][NextAppCalendar]_vars

(***************************************************************************)
(* What the claims about the router speak of, read off the request and the *)
(* calls made.                                                             *)
(***************************************************************************)
\* Which keyword lists have a keyword in the lower-cased text q.
QueryClass(q) ==
    LET lq == Lower(q)
    IN  [daily    |-> \E kw \in DAILY_KWS : Contains(lq, kw),
         banking  |-> \E kw \in BANK_KWS  : Contains(lq, kw),
         calendar |-> \E kw \in CAL_KWS   : Contains(lq, kw),
         gmail    |-> \E kw \in GMAIL_KWS : Contains(lq, kw)]

\* QueryClass, tabulated once over the texts a request can carry.
QueryClasses == [q \in Queries \cup Prompts |-> QueryClass(q)]

Class == QueryClasses[OrStr(rq.payload.query, rq.payload.prompt)]

ClaimDaily == Class.daily

RequestTraceId == IF rq.traceId # "" THEN rq.traceId ELSE rq.payload.traceId

Invoked == [i \in 1..Len(calls) |-> calls[i].tool]

RouteOver == rpc \in {"returned", "raised"}

AgentOver == rpc \in {"parse", "returned", "raised"}

IsEnvelope(text) == text.json /\ {"status", "traceId"} \subseteq DOMAIN text.value

IsErrorEnvelope(v) ==
    /\ {"status", "error", "traceId"} \subseteq DOMAIN v
    /\ v.status = "error"
    /\ v.error # ""

\* The call raised, or its reply is no well-formed envelope.
Broke(call) == ~IsEnvelope(call.reply)

DataKey(tool) ==
    CASE tool = "to_banking"  -> "banking"
      [] tool = "to_calendar" -> "calendar"
      [] tool = "to_gmail"    -> "gmail"

HasDailyData(v) ==
    /\ "data" \in DOMAIN v
    /\ DOMAIN v.data = {"banking", "calendar", "gmail"}

OnlyCalendar ==
    /\ ~Class.daily
    /\ Class.calendar
    /\ ~Class.banking
    /\ ~Class.gmail

FirstBucket ==
    IF Class.banking THEN <<"to_banking">>
    ELSE IF Class.calendar THEN <<"to_calendar">>
    ELSE IF Class.gmail THEN <<"to_gmail">>
    ELSE <<>>

\* C3: whenever route is over for a request whose lower-cased query contains a
\* daily-report keyword, whatever else the query contains, the three tools have been
\* called (banking, calendar, gmail) and route has returned an envelope whose data
\* has exactly the keys banking, calendar and gmail.
C3_DailyFansOut ==
    RouteOver =>
        (ClaimDaily =>
            /\ Invoked = Tools
            /\ rpc = "returned"
            /\ HasDailyData(response))

C8_FirstBucketPriority ==
    AgentOver =>
        (~ClaimDaily =>
            /\ Invoked = FirstBucket
            /\ (FirstBucket = <<>> /\ rpc = "returned") =>
                   /\ {"status", "data"} \subseteq DOMAIN response
                   /\ response.status = "ok"
                   /\ "answer" \in DOMAIN response.data
                   /\ response.data.answer # "")

\* C9: whenever route is over and a tool call raised or replied with something that
\* is no well-formed envelope, route has returned (not raised), and what it returned
\* is an error envelope with a diagnostic and the trace id of the request (or, for a
\* daily report, the merged envelope with an error envelope in each such slot).
C9_FailuresBecomeErrorEnvelopes ==
    (RouteOver /\ \E i \in 1..Len(calls) : Broke(calls[i])) =>
        /\ rpc = "returned"
        /\ \/ IsErrorEnvelope(response) /\ response.traceId = RequestTraceId
           \/ /\ ClaimDaily
              /\ HasDailyData(response)
              /\ \A i \in 1..Len(calls) :
                    Broke(calls[i]) => IsErrorEnvelope(response.data[DataKey(calls[i].tool)])

\* C10: whenever route is over for a daily report in which a tool call failed (it
\* raised, replied with no well-formed envelope, or replied with an error envelope),
\* all three tools have been called and route has returned a merged envelope that
\* holds every good reply under its key and an error envelope under the key of
\* every failed call.
C10_PartialResults ==
    (RouteOver /\ \E i \in 1..Len(calls) : Broke(calls[i]) \/ calls[i].reply.value.status = "error") =>
        (ClaimDaily =>
            /\ Invoked = Tools
            /\ rpc = "returned"
            /\ HasDailyData(response)
            /\ \A i \in 1..Len(calls) :
                  LET slot == response.data[DataKey(calls[i].tool)]
                  IN  IF Broke(calls[i]) THEN IsErrorEnvelope(slot)
                      ELSE slot = calls[i].reply.value)

\* C11: every call of route comes to an end, even when a backend never answers:
\* once the agent run has started, route eventually returns (or raises).
C11_RouteEventuallyEnds == (rpc = "agent") ~> RouteOver

IsTodayWindow(w, d) == w = [since |-> d \o "T00:00:00", until |-> d \o "T23:59:59"]

C13_WindowAlwaysResolved ==
    \A i \in 1..Len(calls) :
        IF rq.payload.window # NoWindow
        THEN calls[i].payload.window = rq.payload.window
        ELSE \E d \in Dates : IsTodayWindow(calls[i].payload.window, d)

\* C13 as the code has it: a window of the request is handed on as it is; without
\* one, the tools of a daily report get the window of today and the tool of a
\* single-target request gets no window at all.
C13_WindowResolvedOnlyDaily ==
    \A i \in 1..Len(calls) :
        IF rq.payload.window # NoWindow
        THEN calls[i].payload.window = rq.payload.window
        ELSE IF ClaimDaily
        THEN \E d \in Dates : IsTodayWindow(calls[i].payload.window, d)
        ELSE calls[i].payload.window = NoWindow

\* A single-target request without a window has been answered by the banking tool,
\* which was handed no window.
C13_Witness ==
    /\ rpc = "returned"
    /\ ~ClaimDaily
    /\ rq.payload.window = NoWindow
    /\ Invoked = <<"to_banking">>
    /\ calls[1].payload.window = NoWindow
    /\ response = OkReply("to_banking", rq.payload).value

FindingsKeys == {"totals", "byMerchant", "byCategory", "recurring", "anomalies"}

\* The report is an ok envelope with the five findings, empty where nothing is there
\* to report: no bucket, no anomaly and totals of zero when no transaction is
\* admitted, no recurring payment when the ledger has no account.
WellFormedReport ==
    /\ report.status = "ok"
    /\ DOMAIN report.findings = FindingsKeys
    /\ AdmittedTxns = <<>> =>
          /\ report.findings.totals = [spend |-> 0, count |-> 0]
          /\ report.findings.byMerchant = <<>>
          /\ report.findings.byCategory = <<>>
          /\ report.findings.anomalies = <<>>
    /\ AccountsOf(bank) = <<>> => report.findings.recurring = <<>>

\* C14: for every ledger document, with or without user, user.accounts, transactions
\* and recurring_payments, a call of bank_window_summary_tool ends with an ok report
\* carrying totals, byMerchant, byCategory, recurring and anomalies, never with an
\* exception.
C14_MalformedLedgerDegrades ==
    (bpc = "done" /\ impl = "tool") => WellFormedReport

\* C15: every envelope route returns, merged, passed through or error, carries the
\* trace id of the request (that of the envelope, else that of the payload), and a
\* report of bank_window_summary_tool carries the traceId it was called with.
C15_TraceIdPropagated ==
    /\ (rpc = "returned" /\ "traceId" \in DOMAIN response) =>
           response.traceId = RequestTraceId
    /\ Done("tool") => report.traceId = traceId

ClaimCaption ==
    LET lo == ParseIso(window.since)
        hi == ParseIso(window.until)
    IN  IF lo.ok /\ hi.ok
        THEN "last " \o ToString(Max((hi.inst - lo.inst) \div 24, 1)) \o " days"
        ELSE "selected window"

StartsWith(str, prefix) == SubSeq(str, 1, Len(prefix)) = prefix

\* C17: the summary of a report of bank_window_summary_tool opens with the caption
\* "last N days", N the whole days from since to until and at least 1, when both
\* bounds of the window are known, and with "selected window" otherwise, and it
\* tells the number of admitted transactions.
C17_WindowCaption ==
    Done("tool") =>
        /\ StartsWith(report.summary, "In the " \o ClaimCaption \o " you spent ")
        /\ Contains(report.summary,
                    " across " \o ToString(Len(AdmittedTxns)) \o " transactions.")

NoStartDateTime ==
    \/ req.payload.shape # "dict"
    \/ req.payload.start.shape # "dict"
    \/ req.payload.start.dateTime.fmt \in {"none", "empty"}

\* The handler is over, by a return or by an exception.
HandlerOver == cpc \in {"returned", "raised"}

\* C19: a request without a start dateTime is answered at once by an envelope with
\* status "error" and a message, before the calendar service is obtained, free/busy
\* is queried or an event is inserted, and nothing is tried again.
C19_MissingStartRejected ==
    (cpc \notin {"off", "idle"} /\ NoStartDateTime) =>
        /\ cpc = "returned"
        /\ result.status = "error"
        /\ result.error = "Missing start dateTime"
        /\ outside = <<>>
        /\ events = <<>>

\* C20: every outcome of the handler is an envelope with a status among ok, error,
\* conflict and a traceId field; nothing leaves it as an exception; and the status
\* is "ok" only if an event was inserted.
C20_EveryOutcomeEnvelope ==
    HandlerOver =>
        /\ cpc = "returned"
        /\ result.status \in {"ok", "error", "conflict"}
        /\ "traceId" \in DOMAIN result
        /\ result.status = "ok" => events # <<>>

(***************************************************************************)
(* What the claims about the recurring list speak of.                      *)
(***************************************************************************)
\* Every recurring charge of every account of the ledger, account by account, each
\* with the label of its account.
ClaimAllRecurring ==
    LET Charges(a) ==
            [j \in 1..Len(a.recurring_payments) |->
                [account |-> IF a.nickname # "" THEN a.nickname ELSE a.account_type,
                 name |-> a.recurring_payments[j].name,
                 amount |-> a.recurring_payments[j].amount,
                 frequency |-> a.recurring_payments[j].frequency,
                 next_charge |-> a.recurring_payments[j].next_charge]]
    IN  IF Len(bank.accounts) = 0 THEN <<>>
        ELSE IF Len(bank.accounts) = 1 THEN Charges(bank.accounts[1])
        ELSE Charges(bank.accounts[1]) \o Charges(bank.accounts[2])

\* The next-charge timestamp of r is readable and lies within every bound of the
\* window that is readable.
ClaimNextChargeInWindow(r) ==
    LET dt == ParseIso(r.next_charge)
        lo == ParseIso(window.since)
        hi == ParseIso(window.until)
    IN  /\ dt.ok
        /\ lo.ok => dt.inst >= lo.inst
        /\ hi.ok => dt.inst <= hi.inst

\* r has no next-charge timestamp: the key is missing or null.
ClaimUndated(r) == r.next_charge.fmt = "none"

\* C21 as stated: the window-scoped copy lists exactly the recurring charges whose
\* next-charge timestamp falls within the window, the unscoped copy lists every
\* recurring charge of every account.
C21_RecurringFollowsMode ==
    /\ Done("tool") =>
          report.findings.recurring = SelectSeq(ClaimAllRecurring, ClaimNextChargeInWindow)
    /\ Done("agent") => report.findings.recurring = ClaimAllRecurring

\* C21 amended: the window-scoped copy lists exactly the recurring charges whose
\* next-charge timestamp falls within the window together with those that have no
\* next-charge timestamp at all; the unscoped copy lists every recurring charge of
\* every account.
C21_RecurringScopedOrUndated ==
    /\ Done("tool") =>
          report.findings.recurring =
              SelectSeq(ClaimAllRecurring,
                        LAMBDA r : ClaimNextChargeInWindow(r) \/ ClaimUndated(r))
    /\ Done("agent") => report.findings.recurring = ClaimAllRecurring

\* The window-scoped copy has answered for a window with both bounds: its list holds
\* a charge without a next-charge timestamp and a dated charge of each account, and
\* leaves out the charges due outside the window.
C21_Witness ==
    /\ Done("tool")
    /\ ParseIso(window.since).ok /\ ParseIso(window.until).ok
    /\ Len(report.findings.recurring) = 3
    /\ \E i \in 1..3 : ClaimUndated(report.findings.recurring[i])
    /\ \E i \in 1..3 : report.findings.recurring[i].account = "savings"
    /\ Len(ClaimAllRecurring) = 6

(***************************************************************************)
(* What the claim about unreadable window bounds speaks of.                *)
(***************************************************************************)
\* The bound is given and is no ISO timestamp.
Unreadable(ts) == ts.fmt = "bad"

\* The window with every unreadable bound taken away.
OpenedWindow ==
    [since |-> IF Unreadable(window.since) THEN TsNone ELSE window.since,
     until |-> IF Unreadable(window.until) THEN TsNone ELSE window.until]

\* t is a debit with a readable effective timestamp that lies within the bounds of
\* the window that are readable; an unreadable bound admits everything on its side.
ClaimAdmitsOpen(t) ==
    LET e  == IF t.posted_at.fmt \in {"none", "empty"} THEN t.created_at ELSE t.posted_at
    IN  /\ e.fmt \in {"naive", "Z", "offset"}
        /\ t.type \in {"debit", "Debit", "DEBIT"}
        /\ window.since.fmt \in {"naive", "Z", "offset"} =>
              ParseIso(e).inst >= ParseIso(window.since).inst
        /\ window.until.fmt \in {"naive", "Z", "offset"} =>
              ParseIso(e).inst <= ParseIso(window.until).inst

\* C22: with a window bound that is no ISO timestamp, the tool still returns status
\* "ok" for a ledger it can read, counts exactly the debits that lie within the other
\* bound (all of them when the other bound is absent or unreadable too), and the
\* report is the one of the same window without the unreadable bound.
C22_UnreadableBoundIsOpen ==
    (/\ bpc = "done" /\ impl = "tool"
     /\ AccountsError(bank) = ""
     /\ Unreadable(window.since) \/ Unreadable(window.until)) =>
        /\ report.status = "ok"
        /\ report.findings.totals.count = Len(SelectSeq(AllTxns, ClaimAdmitsOpen))
        /\ report = BankWindowSummaryTool(bank, OpenedWindow, traceId)

\* The tool has answered for a window whose since is unreadable and whose until is
\* readable: a debit before the until was counted, a debit after it was not.
C22_Witness ==
    /\ Done("tool")
    /\ Unreadable(window.since)
    /\ ParseIso(window.until).ok
    /\ report.findings.totals.count = 1
    /\ \E t \in Range(AllTxns) :
          /\ t.type = "debit"
          /\ TxnDt(t).ok
          /\ TxnDt(t).inst > ParseIso(window.until).inst

(***************************************************************************)
(* What the claim about free/busy speaks of.                               *)
(***************************************************************************)
\* Minutes east of UTC of the zones a request names, on the day of the event.
ClaimZoneOffset(tz) == IF tz = "America/New_York" THEN -240 ELSE 0

\* The instant, in minutes of UTC, at which the calendar places a dateTime of the
\* event: a dateTime with Z or an offset stands for itself, one without is read in
\* the timeZone sent with it.
ClaimInstant(s) ==
    IF s.fmt = "naive" THEN s.m - ClaimZoneOffset(frame.tz) ELSE s.m

\* The positions in the calls made so far of the calls of op.
CallsOf(op) == { i \in 1..Len(outside) : outside[i].op = op }

\* With check_freebusy on, no event is inserted before a free/busy query, and after an
\* answer "busy" the result is a conflict and no event is inserted.
InsertFollowsQuery ==
    kwargs.check_freebusy =>
        /\ \A i \in CallsOf("events.insert") : \E j \in CallsOf("freebusy.query") : j < i
        /\ events # <<>> => CallsOf("events.insert") # {}
        /\ result.status = "conflict" =>
              /\ events = <<>>
              /\ CallsOf("events.insert") = {}
              /\ CallsOf("freebusy.query") # {}

\* C23: with check_freebusy on, an event is inserted only after the free/busy query
\* for the interval of the event has reported no busy period, and a busy answer gives
\* status "conflict" with no event inserted.
C23_InsertOnlyAfterFree ==
    kwargs.check_freebusy =>
        /\ InsertFollowsQuery
        /\ \A i \in CallsOf("events.insert") : \E j \in CallsOf("freebusy.query") :
              /\ j < i
              /\ outside[j].timeMin.m = ClaimInstant(outside[i].timeMin)
              /\ outside[j].timeMax.m = ClaimInstant(outside[i].timeMax)

(***************************************************************************)
(* What the claims about the Discord bot speak of.                         *)
(***************************************************************************)
\* post has returned.
PostOver == posted # "none"

\* The k-th POST got a response with status 200, or with a status from 400 to 499.
ClaimFinal(k) ==
    \/ posts[k].status = 200
    \/ posts[k].status >= 400 /\ posts[k].status <= 499

\* C24: post sends at most `attempts` POSTs; no POST follows a response that is 200
\* or 4xx; a 200 returns True and a 4xx returns False; the k-th retry comes after a
\* backoff of 0.3*2^(k-1) seconds; and post returns True exactly if some attempt got
\* status 200.
C24_PostRetries ==
    /\ Len(posts) <= attempts
    /\ \A k \in 1..Len(posts) : ClaimFinal(k) => k = Len(posts)
    /\ \A k \in 1..Len(posts) :
          (ClaimFinal(k) /\ ipc # "off") =>
              posted = (IF posts[k].status = 200 THEN "True" ELSE "False")
    /\ Len(slept) >= Len(posts) - 1
    /\ \A k \in 1..Len(slept) : slept[k] = 3 * (2 ^ (k - 1))
    /\ PostOver => (posted = "True" <=> \E k \in 1..Len(posts) : posts[k].status = 200)

\* on_message has returned.
HandlerReturned == message.entry = "on_message" /\ ipc = "done"

\* C25: on_message forwards nothing and acknowledges nothing for a message of a bot;
\* for any other message it calls post once and then issues one acknowledgement, a DM
\* reply for a DM and a reaction otherwise, whose content tells the result of post;
\* whether the acknowledgement was delivered or not, the handler returns.
C25_ForwardOnceAckOnce ==
    /\ (message.entry = "on_message" /\ message.bot) =>
          /\ postCalls = 0 /\ posts = <<>> /\ acks = <<>>
          /\ ipc \in {"idle", "done"}
    /\ message.entry = "on_message" =>
          /\ postCalls <= 1
          /\ Len(acks) <= 1
          /\ acks # <<>> => PostOver
    /\ (HandlerReturned /\ ~message.bot) =>
          /\ postCalls = 1
          /\ Len(acks) = 1
          /\ acks[1].kind = (IF message.dm THEN "send" ELSE "add_reaction")
          /\ acks[1].content =
                (IF message.dm
                 THEN (IF posted = "True" THEN "[check] Sent your message to the frontend."
                       ELSE "[warning] Couldn't reach the frontend inlet.")
                 ELSE (IF posted = "True" THEN "[outbox]" ELSE "[warning]"))
    /\ (message.entry = "on_message" /\ ~message.bot /\ PostOver /\ ipc # "done") =>
          ipc = "posted" /\ acks = <<>>

\* on_message has returned for a server message whose POSTs all failed: one reaction
\* of warning was issued, and it could not be delivered.
C25_Witness ==
    /\ HandlerReturned
    /\ ~message.bot /\ ~message.dm
    /\ Len(posts) = 3
    /\ posted = "False"
    /\ acks = <<Ack("add_reaction", "[warning]", FALSE)>>

(***************************************************************************)
(* What the claim about the inlet speaks of.                               *)
(***************************************************************************)
\* The request carries no JSON to work on: no body at all, or a JSON value that is
\* empty (null, {}, [], "", 0).
ClaimEmptyBody ==
    \/ request.wire = "empty"
    \/ request.wire = "json" /\ (request.value.type = "null" \/ request.value.size = 0)

\* The secret is checked before the body is read: a wrong secret gets 401 with the
\* body unread and nothing processed, and 200 is returned only for the right secret
\* and a non-empty JSON body.
SecretBeforeBody ==
    /\ bodyRead => request.secret = "dev-secret"
    /\ (spc = "done" /\ request.secret # "dev-secret") =>
          httpReply.code = 401 /\ ~bodyRead /\ processed = <<>>
    /\ httpReply.code = 200 =>
          /\ request.secret = "dev-secret"
          /\ request.wire = "json" /\ ~ClaimEmptyBody
    /\ processed # <<>> => request.secret = "dev-secret"

\* C26: the secret is checked before the body is read; a wrong secret always gets 401
\* and nothing of the request is processed; the right secret with an empty or missing
\* JSON body gets 400; and 200 comes only with the right secret and a non-empty JSON
\* body.
C26_SecretThenBody ==
    /\ SecretBeforeBody
    /\ (spc = "done" /\ request.secret = "dev-secret" /\ ClaimEmptyBody) =>
          httpReply.code = 400

(***************************************************************************)
(* Counts, timestamps and the two copies.                                  *)
(***************************************************************************)
\* The counts of the buckets of list add up to n, each is at least 1, and no key
\* stands in two buckets.
ClaimCountsPartition(list, n) ==
    /\ SumSeq([i \in 1..Len(list) |-> list[i].count]) = n
    /\ \A i \in 1..Len(list) : list[i].count >= 1
    /\ \A i, j \in 1..Len(list) : list[i].key = list[j].key => i = j

\* C27: in every report totals.count is the number of admitted transactions and the
\* sum of the counts of the byMerchant buckets and of the byCategory buckets; every
\* bucket has a count of at least 1 and no key appears twice in a list.
C27_CountsPartition ==
    (Done("tool") \/ Done("agent")) =>
        /\ report.findings.totals.count = Len(AdmittedTxns)
        /\ ClaimCountsPartition(report.findings.byMerchant, report.findings.totals.count)
        /\ ClaimCountsPartition(report.findings.byCategory, report.findings.totals.count)

\* A report over two admitted transactions of two merchants and one category: two
\* merchant buckets of one, one category bucket of two.
C27_Witness ==
    /\ Done("tool") \/ Done("agent")
    /\ Len(AdmittedTxns) = 2
    /\ Len(report.findings.byMerchant) = 2
    /\ Len(report.findings.byCategory) = 1
    /\ report.findings.byCategory[1].count = 2

\* t has no posted_at (the key is missing, null or empty).
ClaimPostedAbsent(t) == t.posted_at.fmt \in {"none", "empty"}

\* t has neither timestamp, or the one that counts (posted_at, and created_at only
\* when posted_at is absent) is no ISO timestamp.
ClaimUnreadable(t) ==
    LET e == IF ClaimPostedAbsent(t) THEN t.created_at ELSE t.posted_at
    IN  e.fmt \notin {"naive", "Z", "offset"}

\* The ledger without the transactions that cannot be dated, and with created_at
\* taken away wherever posted_at is there.
ClaimDatedOnly(b) ==
    [b EXCEPT !.accounts = [i \in 1..Len(b.accounts) |->
        [b.accounts[i] EXCEPT !.transactions =
            LET kept == SelectSeq(b.accounts[i].transactions,
                                  LAMBDA t : ~ClaimUnreadable(t))
            IN  [j \in 1..Len(kept) |->
                    IF ClaimPostedAbsent(kept[j]) THEN kept[j]
                    ELSE [kept[j] EXCEPT !.created_at = TsNone]]]]]

\* C28: a transaction without posted_at and created_at, or whose effective timestamp
\* cannot be read, is never counted, whatever the window, and created_at matters only
\* where posted_at is absent: the report counts no more transactions than can be
\* dated, and it is the report of the ledger without the undatable transactions and
\* without the created_at of the transactions that have a posted_at.
C28_UndatedNeverAdmitted ==
    Done("tool") =>
        /\ report.findings.totals.count
              <= Len(SelectSeq(AllTxns, LAMBDA t : ~ClaimUnreadable(t)))
        /\ report.findings = BankWindowSummaryTool(ClaimDatedOnly(bank), window, traceId).findings

\* A report for a window without bounds over two debits, one with neither timestamp
\* and one whose posted_at is unreadable while its created_at is fine: none counted.
C28_Witness ==
    /\ Done("tool")
    /\ window.since.fmt = "none" /\ window.until.fmt = "none"
    /\ Len(AllTxns) = 2
    /\ \E k \in 1..2 : AllTxns[k].posted_at.fmt = "none" /\ AllTxns[k].created_at.fmt = "none"
    /\ \E k \in 1..2 : AllTxns[k].posted_at.fmt = "bad" /\ AllTxns[k].created_at.fmt = "Z"
    /\ \A k \in 1..2 : AllTxns[k].type = "debit"
    /\ report.findings.totals.count = 0

\* What the other copy of the analytics function returns for the ledger, the window
\* and the traceId of the report at hand.
OtherReport ==
    IF impl = "tool" THEN BankWindowSummary(bank, window, traceId)
    ELSE BankWindowSummaryTool(bank, window, traceId)

\* The two copies agree on everything but the order of the buckets and the recurring
\* list.
CopiesAgreeUpToOrder ==
    (Done("tool") \/ Done("agent")) =>
        /\ OtherReport.status = "ok"
        /\ OtherReport.findings.totals = report.findings.totals
        /\ Range(OtherReport.findings.byMerchant) = Range(report.findings.byMerchant)
        /\ Range(OtherReport.findings.byCategory) = Range(report.findings.byCategory)
        /\ Len(OtherReport.findings.byMerchant) = Len(report.findings.byMerchant)
        /\ Len(OtherReport.findings.byCategory) = Len(report.findings.byCategory)
        /\ OtherReport.findings.anomalies = report.findings.anomalies
        /\ OtherReport.summary = report.summary
        /\ OtherReport.sms = report.sms

\* C29: for the same ledger, window and currency the two copies return the same
\* totals, the same byMerchant and byCategory lists in the same order, the same
\* anomalies, summary and sms.
C29_CopiesIdentical ==
    (Done("tool") \/ Done("agent")) =>
        /\ CopiesAgreeUpToOrder
        /\ OtherReport.findings.byMerchant = report.findings.byMerchant
        /\ OtherReport.findings.byCategory = report.findings.byCategory

(***************************************************************************)
(* What the claim about the calendar of the application speaks of.         *)
(***************************************************************************)
\* The positions of the calendars of the list cals that carry the summary of the
\* application.
ClaimAppCalendars(cals) == { k \in 1..Len(cals) : cals[k].summary = "Reminders - ShellHacks" }

\* C30: an id returned is the id of a calendar with the summary of the application;
\* while such a calendar is listed nothing is created and the first of them is
\* returned; a calendar is created only after every entry of the list was looked at
\* without a match, and at most one per call; so all calls return the same id and
\* the calls never add a second calendar with that summary.
C30_GetOrCreateOnce ==
    /\ \A k \in 1..Len(ids) : ids[k] \in ClaimAppCalendars(calendars)
    /\ made <= 1
    /\ ClaimAppCalendars(initial) # {} =>
          /\ calendars = initial
          /\ \A k \in 1..Len(ids) :
                \A j \in ClaimAppCalendars(initial) : ids[k] <= j
    /\ gpc = "insert" => (seen = Len(calendars) /\ ClaimAppCalendars(calendars) = {})
    /\ \A j, k \in 1..Len(ids) : ids[j] = ids[k]
    /\ ClaimAppCalendars(initial) = {} => Cardinality(ClaimAppCalendars(calendars)) <= 1
    /\ Len(calendars) <= Len(initial) + 1

\* Two calls have returned for an account whose list of three calendars on pages of
\* one had no calendar of the application: the first created it after three pages,
\* the second found it on the fourth page and created nothing.
C30_Witness ==
    /\ Len(initial) = 3
    /\ pageSize = 1
    /\ ClaimAppCalendars(initial) = {}
    /\ ncalls = 2
    /\ gpc = "returned"
    /\ ids = <<4, 4>>
    /\ seen = 4
    /\ made = 0
    /\ Len(calendars) = 4

====
